---- MODULE Spec2Model ----
(***************************************************************************)
(* Model of the Cashfree payment service (joy095/cashfree-go): the webhook *)
(* endpoint PaymentHandler.HandleWebhook, the signature verifier           *)
(* CashfreeClient.VerifyWebhookSignature, the status projection handlers   *)
(* and the PaymentRepository operations they call.                         *)
(*                                                                         *)
(* Text is modelled as a sequence of bytes (naturals below 256).  A        *)
(* request body is a sequence of JSON lexemes, one byte per lexeme, whose  *)
(* meaning is given by LexTable; json.Unmarshal is modelled by a parser    *)
(* over these lexemes followed by Go's decoding rules for WebhookData.     *)
(***************************************************************************)
EXTENDS Integers, Sequences, FiniteSets, TLC

(***************************************************************************)
(* Bounds of the model.                                                    *)
(***************************************************************************)
\* number of webhook deliveries the gateway makes in one behaviour
MaxDeliveries == 2
\* longest timestamp / payload / secret explored for the signature verifier
MaxLen == 2
\* number of API calls served in one behaviour of the whole service
MaxCalls == 1
\* number of webhook requests in one behaviour of the whole service
MaxServiceDeliveries == 1

(***************************************************************************)
(* Optional values (Go pointers, SQL NULL).                                *)
(***************************************************************************)
Nil == <<>>
Some(v) == <<v>>

(***************************************************************************)
(* encoding/base64: StdEncoding.EncodeToString.                            *)
(***************************************************************************)
B64Alphabet ==
    << "A","B","C","D","E","F","G","H","I","J","K","L","M","N","O","P",
       "Q","R","S","T","U","V","W","X","Y","Z","a","b","c","d","e","f",
       "g","h","i","j","k","l","m","n","o","p","q","r","s","t","u","v",
       "w","x","y","z","0","1","2","3","4","5","6","7","8","9","+","/" >>

B64Char(n) == B64Alphabet[n + 1]

RECURSIVE Base64Encode(_)
Base64Encode(bytes) ==
    IF Len(bytes) = 0 THEN <<>>
    ELSE IF Len(bytes) = 1 THEN
        LET n == bytes[1] * 65536
        IN  << B64Char(n \div 262144), B64Char((n \div 4096) % 64), "=", "=" >>
    ELSE IF Len(bytes) = 2 THEN
        LET n == bytes[1] * 65536 + bytes[2] * 256
        IN  << B64Char(n \div 262144), B64Char((n \div 4096) % 64),
               B64Char((n \div 64) % 64), "=" >>
    ELSE
        LET n == bytes[1] * 65536 + bytes[2] * 256 + bytes[3]
        IN  << B64Char(n \div 262144), B64Char((n \div 4096) % 64),
               B64Char((n \div 64) % 64), B64Char(n % 64) >>
            \o Base64Encode(SubSeq(bytes, 4, Len(bytes)))

(***************************************************************************)
(* crypto/hmac with crypto/sha256.  SHA-256 is idealised as collision      *)
(* free: the digest is a canonical byte encoding of the pair (key,         *)
(* message), so two digests are equal exactly when key and message are.    *)
(***************************************************************************)
HmacSha256(key, message) == <<Len(key)>> \o key \o message

(***************************************************************************)
(* CashfreeClient.VerifyWebhookSignature                                   *)
(***************************************************************************)
\* faulty variant: the timestamp is left out of the signed string
StringToSignPayloadOnly(timestamp, payload) == payload

StringToSign(timestamp, payload) == timestamp \o payload

VerifyWebhookSignature(clientSecret, signature, timestamp, payload) ==
    LET stringToSign == StringToSign(timestamp, payload)
        hash == Base64Encode(HmacSha256(clientSecret, stringToSign))
    IN  hash = signature

(***************************************************************************)
(* JSON text.  A body is a sequence of lexeme codes; LexTable gives the    *)
(* lexeme each code stands for: punctuation, the literal null, a number    *)
(* literal, or a string literal with its content.                          *)
(***************************************************************************)
Punct(t) == [t |-> t, v |-> ""]
StrLit(s) == [t |-> "str", v |-> s]

LexTable ==
    << Punct("{"), Punct("}"), Punct(":"), Punct(","), Punct("null"), Punct("num"),
       StrLit("type"), StrLit("data"), StrLit("order_id"), StrLit("cf_payment_id"),
       StrLit("payment_method"), StrLit("payment_time"), StrLit("refund_id"),
       StrLit("refund_status"), StrLit("processed_at"),
       StrLit("PAYMENT_SUCCESS_WEBHOOK"), StrLit("PAYMENT_FAILED_WEBHOOK"),
       StrLit("REFUND_STATUS_WEBHOOK"), StrLit("SETTLEMENT_STATUS_WEBHOOK"),
       StrLit("SOMETHING_UNKNOWN"), StrLit("payment_success_webhook"), StrLit(""),
       StrLit("o1"), StrLit("o9"), StrLit("p1"), StrLit("card"), StrLit("upi"),
       StrLit("r1"), StrLit("SUCCESS"), StrLit("2024-01-01T00:00:00Z"),
       StrLit("2024-01-02T00:00:00Z"), StrLit("not-a-time"), StrLit("r9") >>

Tok(t) == CHOOSE c \in DOMAIN LexTable : LexTable[c] = Punct(t)
Str(s) == CHOOSE c \in DOMAIN LexTable : LexTable[c] = StrLit(s)

\* JSON values
JStr(s) == [k |-> "str", s |-> s, m |-> <<>>]
JNum == [k |-> "num", s |-> "", m |-> <<>>]
JNull == [k |-> "null", s |-> "", m |-> <<>>]
JObj(members) == [k |-> "obj", s |-> "", m |-> members]

ParseFail == [ok |-> FALSE, val |-> JNull, next |-> 0]

(***************************************************************************)
(* encoding/json: the syntax of a JSON value starting at lexeme i.  The    *)
(* result carries the value and the position after it.                     *)
(***************************************************************************)
RECURSIVE ParseValue(_, _), ParseObject(_, _, _)
ParseValue(toks, i) ==
    IF i > Len(toks) THEN ParseFail
    ELSE LET lx == LexTable[toks[i]]
         IN  CASE lx.t = "str"  -> [ok |-> TRUE, val |-> JStr(lx.v), next |-> i + 1]
               [] lx.t = "num"  -> [ok |-> TRUE, val |-> JNum, next |-> i + 1]
               [] lx.t = "null" -> [ok |-> TRUE, val |-> JNull, next |-> i + 1]
               [] lx.t = "{"    ->
                    IF i + 1 <= Len(toks) /\ LexTable[toks[i + 1]].t = "}"
                    THEN [ok |-> TRUE, val |-> JObj(<<>>), next |-> i + 2]
                    ELSE ParseObject(toks, i + 1, <<>>)
               [] OTHER         -> ParseFail

\* the members of an object from the key at lexeme i, up to the closing brace
ParseObject(toks, i, acc) ==
    IF i + 1 > Len(toks) THEN ParseFail
    ELSE IF LexTable[toks[i]].t /= "str" \/ LexTable[toks[i + 1]].t /= ":" THEN ParseFail
    ELSE LET v == ParseValue(toks, i + 2)
             members == Append(acc, [key |-> LexTable[toks[i]].v, val |-> v.val])
         IN  IF ~v.ok \/ v.next > Len(toks) THEN ParseFail
             ELSE IF LexTable[toks[v.next]].t = "}"
                  THEN [ok |-> TRUE, val |-> JObj(members), next |-> v.next + 1]
             ELSE IF LexTable[toks[v.next]].t = ","
                  THEN ParseObject(toks, v.next + 1, members)
             ELSE ParseFail

HasKey(members, key) == \E j \in DOMAIN members : members[j].key = key

\* the last member with the key wins, as in encoding/json
Field(members, key) ==
    LET j == CHOOSE x \in DOMAIN members :
                 /\ members[x].key = key
                 /\ \A y \in DOMAIN members : members[y].key = key => y <= x
    IN  members[j].val

\* map[string]interface{} decoded from an object
ToMap(members) ==
    [key \in {members[j].key : j \in DOMAIN members} |-> Field(members, key)]

(***************************************************************************)
(* The JSONB column of the store.  A text written to it is kept as the     *)
(* value it denotes: an object keeps one member per key, the last one, and *)
(* its members are ordered by the length of the key, then by its bytes.    *)
(***************************************************************************)
\* the elements of seq that keep accepts, in the order of seq
Select(seq, keep(_)) ==
    LET F[i \in 0..Len(seq)] ==
            IF i = 0 THEN <<>>
            ELSE IF keep(seq[i]) THEN Append(F[i - 1], seq[i]) ELSE F[i - 1]
    IN  F[Len(seq)]

\* the strings of LexTable in the order JSONB gives to keys
JsonbKeyOrder ==
    << "", "o1", "o9", "p1", "r1", "r9", "upi", "card", "data", "type", "SUCCESS",
       "order_id", "refund_id", "not-a-time", "payment_time", "processed_at",
       "cf_payment_id", "refund_status", "payment_method", "SOMETHING_UNKNOWN",
       "2024-01-01T00:00:00Z", "2024-01-02T00:00:00Z", "REFUND_STATUS_WEBHOOK",
       "PAYMENT_FAILED_WEBHOOK", "PAYMENT_SUCCESS_WEBHOOK",
       "payment_success_webhook", "SETTLEMENT_STATUS_WEBHOOK" >>

RECURSIVE JsonbOut(_), JsonbMembers(_, _)
\* the text the store gives back for a value
JsonbOut(val) ==
    CASE val.k = "str"  -> << Str(val.s) >>
      [] val.k = "num"  -> << Tok("num") >>
      [] val.k = "null" -> << Tok("null") >>
      [] OTHER          ->
           << Tok("{") >>
             \o JsonbMembers(val.m, Select(JsonbKeyOrder, LAMBDA k : HasKey(val.m, k)))
             \o << Tok("}") >>

JsonbMembers(members, keys) ==
    IF keys = <<>> THEN <<>>
    ELSE << Str(Head(keys)), Tok(":") >> \o JsonbOut(Field(members, Head(keys)))
           \o (IF Len(keys) = 1 THEN <<>>
               ELSE << Tok(",") >> \o JsonbMembers(members, Tail(keys)))

\* text -> jsonb -> text
Jsonb(text) == JsonbOut(ParseValue(text, 1).val)

(***************************************************************************)
(* json.Unmarshal(body, &webhookData) for                                  *)
(*   WebhookData{Type string `json:"type"`; Data map[string]interface{}}   *)
(* A syntax error, trailing text, a non-object document, a non-string type *)
(* or a non-object data is an error; null and absent fields leave the zero *)
(* value.                                                                  *)
(***************************************************************************)
WebhookDataZero == [err |-> FALSE, Type |-> "", Data |-> <<>>]
UnmarshalError == [err |-> TRUE, Type |-> "", Data |-> <<>>]

Unmarshal(body) ==
    LET p == ParseValue(body, 1)
    IN  IF ~p.ok \/ p.next /= Len(body) + 1 THEN UnmarshalError
        ELSE IF p.val.k = "null" THEN WebhookDataZero
        ELSE IF p.val.k /= "obj" THEN UnmarshalError
        ELSE LET m == p.val.m
                 hasType == HasKey(m, "type") /\ Field(m, "type").k /= "null"
                 hasData == HasKey(m, "data") /\ Field(m, "data").k /= "null"
             IN  IF hasType /\ Field(m, "type").k /= "str" THEN UnmarshalError
                 ELSE IF hasData /\ Field(m, "data").k /= "obj" THEN UnmarshalError
                 ELSE [err  |-> FALSE,
                       Type |-> IF hasType THEN Field(m, "type").s ELSE "",
                       Data |-> IF hasData THEN ToMap(Field(m, "data").m) ELSE <<>>]

\* faulty variant: the assertion succeeds for a value of any type
IsPresent(data, key) == key \in DOMAIN data

\* the Go type assertion data[key].(string): value and ok
IsString(data, key) == key \in DOMAIN data /\ data[key].k = "str"
AsString(data, key) == IF IsString(data, key) THEN data[key].s ELSE ""

(***************************************************************************)
(* time.Parse(time.RFC3339, s).  The texts that are RFC 3339 times, with   *)
(* the instant each denotes (days since 2023-12-31T00:00:00Z).             *)
(***************************************************************************)
RFC3339Times == { <<"2024-01-01T00:00:00Z", 1>>, <<"2024-01-02T00:00:00Z", 2>> }

TimeParseOK(s) == \E e \in RFC3339Times : e[1] = s
TimeParse(s) == (CHOOSE e \in RFC3339Times : e[1] = s)[2]

\* faulty variant: a pointer to the zero time is stored when the text does not parse
OptionalTimeZeroValue(data, key) ==
    IF key \in DOMAIN data /\ data[key].k = "str"
    THEN IF TimeParseOK(data[key].s) THEN Some(TimeParse(data[key].s)) ELSE Some(0)
    ELSE Nil

\* the optional timestamp of an event: nil unless a string that parses
OptionalTime(data, key) ==
    IF key \in DOMAIN data /\ data[key].k = "str" /\ TimeParseOK(data[key].s)
    THEN Some(TimeParse(data[key].s))
    ELSE Nil

(***************************************************************************)
(* The gateway's side: how it serialises an event and signs a delivery.    *)
(* These build the inputs of the model.                                    *)
(***************************************************************************)
RECURSIVE JoinMembers(_)
JoinMembers(ms) ==
    IF Len(ms) = 0 THEN <<>>
    ELSE IF Len(ms) = 1 THEN ms[1]
    ELSE ms[1] \o <<Tok(",")>> \o JoinMembers(Tail(ms))

Member(key, value) == <<Str(key), Tok(":")>> \o value
Object(ms) == <<Tok("{")>> \o JoinMembers(ms) \o <<Tok("}")>>
Event(type, data) == Object(<< Member("type", type), Member("data", Object(data)) >>)
S(s) == <<Str(s)>>

GatewaySign(secret, timestamp, body) ==
    Base64Encode(HmacSha256(secret, timestamp \o body))

\* PAYMENT_SUCCESS_WEBHOOK for o1 with every optional field
BodySuccess ==
    Event(S("PAYMENT_SUCCESS_WEBHOOK"),
          << Member("order_id", S("o1")), Member("cf_payment_id", S("p1")),
             Member("payment_method", S("card")),
             Member("payment_time", S("2024-01-01T00:00:00Z")) >>)
\* the same for o1 with a malformed payment_time, a non-string cf_payment_id and no method
BodySuccessLoose ==
    Event(S("PAYMENT_SUCCESS_WEBHOOK"),
          << Member("order_id", S("o1")), Member("cf_payment_id", <<Tok("num")>>),
             Member("payment_time", S("not-a-time")) >>)
\* no order_id
BodySuccessNoOrder ==
    Event(S("PAYMENT_SUCCESS_WEBHOOK"), << Member("cf_payment_id", S("p1")) >>)
\* order_id is a number
BodySuccessNumOrder ==
    Event(S("PAYMENT_SUCCESS_WEBHOOK"), << Member("order_id", <<Tok("num")>>) >>)
\* an order the store does not hold
BodySuccessUnknownOrder ==
    Event(S("PAYMENT_SUCCESS_WEBHOOK"),
          << Member("order_id", S("o9")), Member("cf_payment_id", S("p1")) >>)
\* payment_time is a number
BodySuccessNumTime ==
    Event(S("PAYMENT_SUCCESS_WEBHOOK"),
          << Member("order_id", S("o1")), Member("cf_payment_id", S("p1")),
             Member("payment_method", S("card")),
             Member("payment_time", <<Tok("num")>>) >>)
\* no payment_time
BodySuccessNoTime ==
    Event(S("PAYMENT_SUCCESS_WEBHOOK"),
          << Member("order_id", S("o1")), Member("cf_payment_id", S("p1")),
             Member("payment_method", S("card")) >>)
BodyFailed ==
    Event(S("PAYMENT_FAILED_WEBHOOK"), << Member("order_id", S("o1")) >>)
BodyRefund ==
    Event(S("REFUND_STATUS_WEBHOOK"),
          << Member("refund_id", S("r1")), Member("refund_status", S("SUCCESS")),
             Member("processed_at", S("2024-01-02T00:00:00Z")) >>)
\* refund event without refund_status, carrying an order_id
BodyRefundNoStatus ==
    Event(S("REFUND_STATUS_WEBHOOK"),
          << Member("refund_id", S("r1")), Member("order_id", S("o1")) >>)
\* refund_status is a number
BodyRefundNumStatus ==
    Event(S("REFUND_STATUS_WEBHOOK"),
          << Member("refund_id", S("r1")), Member("refund_status", <<Tok("num")>>),
             Member("processed_at", S("2024-01-02T00:00:00Z")) >>)
\* processed_at does not parse
BodyRefundLoose ==
    Event(S("REFUND_STATUS_WEBHOOK"),
          << Member("refund_id", S("r1")), Member("refund_status", S("SUCCESS")),
             Member("processed_at", S("not-a-time")) >>)
\* a refund the store does not hold
BodyRefundUnknown ==
    Event(S("REFUND_STATUS_WEBHOOK"),
          << Member("refund_id", S("r9")), Member("refund_status", S("SUCCESS")) >>)
BodyRefundNoId ==
    Event(S("REFUND_STATUS_WEBHOOK"), << Member("refund_status", S("SUCCESS")) >>)
BodySettlement ==
    Event(S("SETTLEMENT_STATUS_WEBHOOK"), << Member("order_id", S("o1")) >>)
BodyUnknown ==
    Event(S("SOMETHING_UNKNOWN"), << Member("order_id", S("o1")) >>)
BodyLowerCase ==
    Event(S("payment_success_webhook"),
          << Member("order_id", S("o1")), Member("cf_payment_id", S("p1")) >>)
BodyEmptyType ==
    Event(S(""), << Member("order_id", S("o1")), Member("refund_id", S("r1")) >>)
\* no data member at all
BodyNoData == Object(<< Member("type", S("PAYMENT_FAILED_WEBHOOK")) >>)
\* the document null
BodyNull == <<Tok("null")>>
\* not JSON: the closing brace is missing
BodyTruncated == SubSeq(BodySuccess, 1, Len(BodySuccess) - 1)
\* JSON, but type is a number
BodyNumType ==
    Object(<< Member("type", <<Tok("num")>>),
              Member("data", Object(<< Member("order_id", S("o1")) >>)) >>)
\* JSON, but data is a string
BodyStringData ==
    Object(<< Member("type", S("PAYMENT_SUCCESS_WEBHOOK")), Member("data", S("o1")) >>)

Bodies ==
    { BodySuccess, BodySuccessLoose, BodySuccessNumTime, BodySuccessNoTime,
      BodySuccessNoOrder, BodySuccessNumOrder, BodySuccessUnknownOrder, BodyFailed,
      BodyRefund, BodyRefundNoStatus, BodyRefundNumStatus, BodyRefundLoose,
      BodyRefundUnknown,
      BodyRefundNoId, BodySettlement, BodyUnknown, BodyLowerCase, BodyEmptyType,
      BodyNoData, BodyNull, BodyTruncated, BodyNumType, BodyStringData, <<>> }

\* the secret the service is configured with (CASHFREE_CLIENT_SECRET) and another one
ClientSecret == <<115, 107>>
OtherSecret == <<115, 120>>

\* x-webhook-timestamp values: absent, or "17"
Timestamps == { <<>>, <<49, 55>> }

\* x-webhook-signature values for a delivery: absent, the gateway's, one made
\* with another secret, and the gateway's signature of another body
Signatures(timestamp, body) ==
    { <<>>, GatewaySign(ClientSecret, timestamp, body),
      GatewaySign(OtherSecret, timestamp, body),
      GatewaySign(ClientSecret, timestamp, BodySuccess) }

(***************************************************************************)
(* State.                                                                  *)
(*   payments          the payments table, by order_id                     *)
(*   refunds           the refunds table, by refund_id                     *)
(*   webhooks          the webhooks table, in insertion order              *)
(*   settlements       the settlements table, by settlement_id             *)
(*   split_settlements the split_settlements table, in insertion order     *)
(*   logs              the lines written to the process log                *)
(*   outbound          the messages the service has sent: requests to the  *)
(*                     gateway and responses to API callers                *)
(*   req               the webhook request each server goroutine handles   *)
(*   delivered         the number of webhook deliveries received so far    *)
(*   calls             the API calls served so far, with their steps       *)
(*   vf                one application of the signature verifier           *)
(* The created_at / updated_at columns are not modelled, nor are the       *)
(* amount, currency and customer columns of a payment.                     *)
(***************************************************************************)
VARIABLES payments, refunds, webhooks, settlements, split_settlements,
          logs, outbound, req, delivered, calls, vf

storeVars == <<payments, refunds, webhooks, settlements, split_settlements>>
vars == <<payments, refunds, webhooks, settlements, split_settlements,
          logs, outbound, req, delivered, calls, vf>>

StatusOK == 200
StatusBadRequest == 400
StatusUnauthorized == 401

NoResponse == [code |-> 0, body |-> ""]

IdleReq ==
    [ pc          |-> "idle",
      signature   |-> <<>>,
      timestamp   |-> <<>>,
      body        |-> <<>>,
      readErr     |-> FALSE,
      webhookData |-> WebhookDataZero,
      ctxDone     |-> FALSE,
      resp        |-> NoResponse,
      trace       |-> <<>>,
      delivery    |-> 0,
      before      |-> <<>> ]

VfIdle ==
    [ pc |-> "off", secret |-> <<>>, timestamp |-> <<>>, payload |-> <<>>,
      signature |-> <<>>, mutated |-> "none", result |-> FALSE ]

\* the row CreatePaymentSession inserts, and the row RefundPayment inserts
NewPayment ==
    [ status |-> "CREATED", cf_payment_id |-> Nil, payment_method |-> Nil,
      payment_time |-> Nil ]
NewRefund == [ order_id |-> "o1", status |-> "PENDING", processed_at |-> Nil ]

\* the goroutines serving webhook requests; Spec serves one request at a time
Workers == {1}

\* the store after two payment sessions were created and two refunds requested
InitStore ==
    /\ payments = [o \in {"o1", "o2"} |-> NewPayment]
    /\ refunds = [f \in {"r1", "r2"} |-> NewRefund]
    /\ webhooks = <<>>
    /\ settlements = <<>>
    /\ split_settlements = <<>>

Init ==
    /\ InitStore
    /\ logs = {}
    /\ outbound = {}
    /\ req = [r \in Workers |-> IdleReq]
    /\ delivered = 0
    /\ calls = <<>>
    /\ vf = VfIdle

(***************************************************************************)
(* The process log.  A line is the format string of a log.Printf or        *)
(* log.Println call with the values it formats; a value carries its kind.  *)
(***************************************************************************)
V(k, v) == [k |-> k, v |-> v]
LogLine(text, args) == [text |-> text, args |-> args]
Log(lines) == logs' = logs \cup lines

\* the error a failed statement returns
StoreErr(out) ==
    V("err", IF out \in {"timeout", "late"} THEN "context deadline exceeded"
             ELSE "exec failed")

(***************************************************************************)
(* PaymentRepository.  A statement run through the pool either is applied  *)
(* and returns nil ("ok"), fails without effect ("error"), runs into the   *)
(* context deadline without effect ("timeout"), or runs into the deadline  *)
(* after the server applied it ("late").  Once the request's context is    *)
(* done every further statement fails without effect.                      *)
(***************************************************************************)
ExecOutcomes(ctxDone) ==
    IF ctxDone THEN {"error"} ELSE {"ok", "error", "timeout", "late"}

Applied(out) == out \in {"ok", "late"}
Expired(out) == out \in {"timeout", "late"}

\* faulty variant: only the status column is written
UpdatePaymentStatusOnly(rows, orderID, status, cfPaymentID, paymentMethod, paymentTime) ==
    [o \in DOMAIN rows |->
        IF o = orderID THEN [rows[o] EXCEPT !.status = status] ELSE rows[o]]

\* faulty variant: a row is inserted when no payment has the order id
UpdatePaymentStatusUpsert(rows, orderID, status, cfPaymentID, paymentMethod, paymentTime) ==
    [o \in DOMAIN rows \cup {orderID} |->
        IF o = orderID
        THEN [ status |-> status, cf_payment_id |-> cfPaymentID,
               payment_method |-> paymentMethod, payment_time |-> paymentTime ]
        ELSE rows[o]]

\* faulty variant: null arguments leave the column as it is (COALESCE)
UpdatePaymentStatusCoalesce(rows, orderID, status, cfPaymentID, paymentMethod, paymentTime) ==
    [o \in DOMAIN rows |->
        IF o = orderID
        THEN [rows[o] EXCEPT
                !.status = status,
                !.cf_payment_id = IF cfPaymentID = Nil THEN @ ELSE cfPaymentID,
                !.payment_method = IF paymentMethod = Nil THEN @ ELSE paymentMethod,
                !.payment_time = IF paymentTime = Nil THEN @ ELSE paymentTime]
        ELSE rows[o]]

\* faulty variant: a payment that is SUCCESS is final and is not written again
UpdatePaymentStatusTerminal(rows, orderID, status, cfPaymentID, paymentMethod, paymentTime) ==
    [o \in DOMAIN rows |->
        IF o = orderID /\ rows[o].status /= "SUCCESS"
        THEN [rows[o] EXCEPT !.status = status, !.cf_payment_id = cfPaymentID,
                             !.payment_method = paymentMethod,
                             !.payment_time = paymentTime]
        ELSE rows[o]]

\* UPDATE payments SET status, cf_payment_id, payment_method, payment_time WHERE order_id
UpdatePaymentStatus(rows, orderID, status, cfPaymentID, paymentMethod, paymentTime) ==
    [o \in DOMAIN rows |->
        IF o = orderID
        THEN [rows[o] EXCEPT !.status = status, !.cf_payment_id = cfPaymentID,
                             !.payment_method = paymentMethod,
                             !.payment_time = paymentTime]
        ELSE rows[o]]

\* faulty variant: the WHERE clause is missing
UpdateRefundStatusAllRows(rows, refundID, status, processedAt) ==
    [f \in DOMAIN rows |->
        [rows[f] EXCEPT !.status = status, !.processed_at = processedAt]]

\* faulty variant: an empty status leaves the row as it is
UpdateRefundStatusSkipsEmpty(rows, refundID, status, processedAt) ==
    [f \in DOMAIN rows |->
        IF f = refundID /\ status /= ""
        THEN [rows[f] EXCEPT !.status = status, !.processed_at = processedAt]
        ELSE rows[f]]

\* UPDATE refunds SET status, processed_at WHERE refund_id
UpdateRefundStatus(rows, refundID, status, processedAt) ==
    [f \in DOMAIN rows |->
        IF f = refundID
        THEN [rows[f] EXCEPT !.status = status, !.processed_at = processedAt]
        ELSE rows[f]]

\* faulty variant: the row is inserted twice
CreateWebhookLogTwice(rows, id, webhook) ==
    rows \o << [ id |-> id, event_type |-> webhook.EventType,
                 order_id |-> webhook.OrderID, payload |-> Jsonb(webhook.Payload),
                 status |-> webhook.Status ],
               [ id |-> id, event_type |-> webhook.EventType,
                 order_id |-> webhook.OrderID, payload |-> Jsonb(webhook.Payload),
                 status |-> webhook.Status ] >>

\* faulty variant: an event whose payload is already logged is not logged again
CreateWebhookLogDedup(rows, id, webhook) ==
    IF \E i \in DOMAIN rows : rows[i].payload = Jsonb(webhook.Payload)
    THEN rows
    ELSE Append(rows, [ id |-> id, event_type |-> webhook.EventType,
                        order_id |-> webhook.OrderID, payload |-> Jsonb(webhook.Payload),
                        status |-> webhook.Status ])

\* INSERT INTO webhooks; id stands for uuid.New(), a value no other row carries
CreateWebhookLog(rows, id, webhook) ==
    Append(rows, [ id |-> id, event_type |-> webhook.EventType,
                   order_id |-> webhook.OrderID, payload |-> Jsonb(webhook.Payload),
                   status |-> webhook.Status ])

(***************************************************************************)
(* PaymentHandler.HandleWebhook, one action per step of the handler.       *)
(***************************************************************************)
Step(op, out) == [op |-> op, out |-> out]

\* c.JSON(code, ...) followed by return
Reply(r, op, code, body) ==
    req' = [req EXCEPT ![r].pc = "done", ![r].resp = [code |-> code, body |-> body],
                       ![r].trace = Append(@, Step(op, "return"))]

Goto(r, op, pc) ==
    req' = [req EXCEPT ![r].pc = pc, ![r].trace = Append(@, Step(op, ""))]

\* the gateway (or anyone else) posts to /api/v1/webhook/cashfree
Receive(r) ==
    /\ req[r].pc = "idle"
    /\ delivered < MaxDeliveries
    /\ \E timestamp \in Timestamps, body \in Bodies, readErr \in BOOLEAN :
         /\ readErr => body = <<>>
         /\ \E signature \in Signatures(timestamp, body) :
              req' = [req EXCEPT ![r] =
                        [IdleReq EXCEPT !.pc = "headers", !.signature = signature,
                                        !.timestamp = timestamp, !.body = body,
                                        !.readErr = readErr,
                                        !.delivery = delivered + 1,
                                        !.before = storeVars]]
    /\ delivered' = delivered + 1
    /\ UNCHANGED <<storeVars, logs, outbound, calls, vf>>

\* faulty variant: only a request lacking both headers is turned away
HeadersMissingBoth(signature, timestamp) == signature = <<>> /\ timestamp = <<>>

HeadersMissing(signature, timestamp) == signature = <<>> \/ timestamp = <<>>

CheckHeaders(r) ==
    /\ req[r].pc = "headers"
    /\ IF HeadersMissing(req[r].signature, req[r].timestamp)
       THEN /\ Reply(r, "CheckHeaders", StatusBadRequest, "Missing webhook headers")
            /\ Log({LogLine("Missing webhook signature or timestamp", <<>>)})
       ELSE /\ Goto(r, "CheckHeaders", "read")
            /\ UNCHANGED logs
    /\ UNCHANGED <<storeVars, outbound, delivered, calls, vf>>

ReadBody(r) ==
    /\ req[r].pc = "read"
    /\ IF req[r].readErr
       THEN /\ Reply(r, "ReadBody", StatusBadRequest, "Failed to read request body")
            /\ Log({LogLine("Failed to read webhook body: %v",
                            <<V("err", "unexpected EOF")>>)})
       ELSE /\ Goto(r, "ReadBody", "verify")
            /\ UNCHANGED logs
    /\ UNCHANGED <<storeVars, outbound, delivered, calls, vf>>

\* faulty variant: a failed verification is logged but the handler carries on
VerifySignatureFallsThrough(r) ==
    /\ req[r].pc = "verify"
    /\ Goto(r, "VerifyWebhookSignature", "parse")
    /\ IF ~VerifyWebhookSignature(ClientSecret, req[r].signature, req[r].timestamp,
                                  req[r].body)
       THEN Log({LogLine("Invalid webhook signature", <<>>)})
       ELSE UNCHANGED logs
    /\ UNCHANGED <<storeVars, outbound, delivered, calls, vf>>

\* faulty variant: the line reporting a bad signature shows the key it was checked with
VerifySignatureLogsKey(r) ==
    /\ req[r].pc = "verify"
    /\ IF ~VerifyWebhookSignature(ClientSecret, req[r].signature, req[r].timestamp,
                                  req[r].body)
       THEN /\ Reply(r, "VerifyWebhookSignature", StatusUnauthorized, "Invalid signature")
            /\ Log({LogLine("Invalid webhook signature (key %s)",
                            <<V("bytes", ClientSecret)>>)})
       ELSE /\ Goto(r, "VerifyWebhookSignature", "parse")
            /\ UNCHANGED logs
    /\ UNCHANGED <<storeVars, outbound, delivered, calls, vf>>

VerifySignature(r) ==
    /\ req[r].pc = "verify"
    /\ IF ~VerifyWebhookSignature(ClientSecret, req[r].signature, req[r].timestamp,
                                  req[r].body)
       THEN /\ Reply(r, "VerifyWebhookSignature", StatusUnauthorized, "Invalid signature")
            /\ Log({LogLine("Invalid webhook signature", <<>>)})
       ELSE /\ Goto(r, "VerifyWebhookSignature", "parse")
            /\ UNCHANGED logs
    /\ UNCHANGED <<storeVars, outbound, delivered, calls, vf>>

\* faulty variant: the error of json.Unmarshal is ignored
ParseBodyIgnoresError(r) ==
    /\ req[r].pc = "parse"
    /\ LET webhookData == Unmarshal(req[r].body)
       IN  req' = [req EXCEPT ![r].pc = "log",
                              ![r].webhookData = [webhookData EXCEPT !.err = FALSE],
                              ![r].trace = Append(@, Step("Unmarshal", ""))]
    /\ UNCHANGED <<storeVars, logs, outbound, delivered, calls, vf>>

ParseBody(r) ==
    /\ req[r].pc = "parse"
    /\ LET webhookData == Unmarshal(req[r].body)
       IN  IF webhookData.err
           THEN /\ Reply(r, "Unmarshal", StatusBadRequest, "Invalid webhook data")
                /\ Log({LogLine("Failed to parse webhook data: %v",
                                <<V("err", "invalid JSON")>>)})
           ELSE /\ req' = [req EXCEPT ![r].pc = "log", ![r].webhookData = webhookData,
                                      ![r].trace = Append(@, Step("Unmarshal", ""))]
                /\ UNCHANGED logs
    /\ UNCHANGED <<storeVars, outbound, delivered, calls, vf>>

\* the Webhook value built at lines 426-438
WebhookOf(webhookData, body) ==
    [ EventType |-> webhookData.Type,
      OrderID   |-> IF IsString(webhookData.Data, "order_id")
                    THEN Some(AsString(webhookData.Data, "order_id")) ELSE Nil,
      Payload   |-> body,
      Status    |-> "RECEIVED" ]

\* the line written when the log insert returns an error
LogInsertFailed(out) ==
    IF out = "ok" THEN {} ELSE {LogLine("Failed to log webhook: %v", <<StoreErr(out)>>)}

\* faulty variant: the handler goes on to dispatch without writing the log
LogWebhookSkipped(r) ==
    /\ req[r].pc = "log"
    /\ req' = [req EXCEPT ![r].pc = "dispatch"]
    /\ UNCHANGED <<storeVars, logs, outbound, delivered, calls, vf>>

\* faulty variant: after a failed log insert the event is not dispatched
LogWebhookGatesDispatch(r) ==
    /\ req[r].pc = "log"
    /\ \E out \in ExecOutcomes(req[r].ctxDone) :
         /\ webhooks' = IF Applied(out)
                        THEN CreateWebhookLog(webhooks, req[r].delivery,
                                              WebhookOf(req[r].webhookData, req[r].body))
                        ELSE webhooks
         /\ req' = [req EXCEPT ![r].pc = IF out = "ok" THEN "dispatch" ELSE "respond",
                               ![r].ctxDone = @ \/ Expired(out),
                               ![r].trace = Append(@, Step("CreateWebhookLog", out))]
         /\ Log(LogInsertFailed(out))
    /\ UNCHANGED <<payments, refunds, settlements, split_settlements, outbound,
                   delivered, calls, vf>>

\* faulty variant: a failed log insert is answered with 500
LogWebhookFailsRequest(r) ==
    /\ req[r].pc = "log"
    /\ \E out \in ExecOutcomes(req[r].ctxDone) :
         /\ webhooks' = IF Applied(out)
                        THEN CreateWebhookLog(webhooks, req[r].delivery,
                                              WebhookOf(req[r].webhookData, req[r].body))
                        ELSE webhooks
         /\ req' = [req EXCEPT ![r].pc = IF out = "ok" THEN "dispatch" ELSE "done",
                               ![r].resp = IF out = "ok" THEN @
                                           ELSE [code |-> 500, body |-> "Failed to log webhook"],
                               ![r].ctxDone = @ \/ Expired(out),
                               ![r].trace = Append(@, Step("CreateWebhookLog", out))]
         /\ Log(LogInsertFailed(out))
    /\ UNCHANGED <<payments, refunds, settlements, split_settlements, outbound,
                   delivered, calls, vf>>

LogWebhook(r) ==
    /\ req[r].pc = "log"
    /\ \E out \in ExecOutcomes(req[r].ctxDone) :
         /\ webhooks' = IF Applied(out)
                        THEN CreateWebhookLog(webhooks, req[r].delivery,
                                              WebhookOf(req[r].webhookData, req[r].body))
                        ELSE webhooks
         /\ req' = [req EXCEPT ![r].pc = "dispatch",
                               ![r].ctxDone = @ \/ Expired(out),
                               ![r].trace = Append(@, Step("CreateWebhookLog", out))]
         /\ Log(LogInsertFailed(out))
    /\ UNCHANGED <<payments, refunds, settlements, split_settlements, outbound,
                   delivered, calls, vf>>

\* faulty variant: the type is matched without regard to case
HandlerForAnyCase(type) ==
    CASE type \in {"PAYMENT_SUCCESS_WEBHOOK", "payment_success_webhook"}
                                            -> "handlePaymentSuccessWebhook"
      [] type = "PAYMENT_FAILED_WEBHOOK"    -> "handlePaymentFailedWebhook"
      [] type = "REFUND_STATUS_WEBHOOK"     -> "handleRefundStatusWebhook"
      [] type = "SETTLEMENT_STATUS_WEBHOOK" -> "handleSettlementStatusWebhook"
      [] OTHER                              -> "default"

\* the switch on webhookData.Type
HandlerFor(type) ==
    CASE type = "PAYMENT_SUCCESS_WEBHOOK"   -> "handlePaymentSuccessWebhook"
      [] type = "PAYMENT_FAILED_WEBHOOK"    -> "handlePaymentFailedWebhook"
      [] type = "REFUND_STATUS_WEBHOOK"     -> "handleRefundStatusWebhook"
      [] type = "SETTLEMENT_STATUS_WEBHOOK" -> "handleSettlementStatusWebhook"
      [] OTHER                              -> "default"

Dispatched(r, handler) ==
    /\ req[r].pc = "dispatch"
    /\ HandlerFor(req[r].webhookData.Type) = handler

\* a handler that returns without a store call
HandlerReturns(r, handler) ==
    req' = [req EXCEPT ![r].pc = "respond",
                       ![r].trace = Append(@, Step(handler, "return"))]

\* a handler that made the store call op with outcome out
HandlerCalled(r, handler, op, out) ==
    req' = [req EXCEPT ![r].pc = "respond",
                       ![r].ctxDone = @ \/ Expired(out),
                       ![r].trace = @ \o <<Step(handler, ""), Step(op, out)>>]

\* the line a handler writes when its update returns an error
UpdateFailed(text, out) ==
    IF out = "ok" THEN {} ELSE {LogLine(text, <<StoreErr(out)>>)}

handlePaymentSuccessWebhook(r) ==
    /\ Dispatched(r, "handlePaymentSuccessWebhook")
    /\ LET data == req[r].webhookData.Data
           orderID == AsString(data, "order_id")
           cfPaymentID == AsString(data, "cf_payment_id")
           paymentMethod == AsString(data, "payment_method")
           paymentTime == OptionalTime(data, "payment_time")
       IN  IF ~IsString(data, "order_id")
           THEN /\ HandlerReturns(r, "handlePaymentSuccessWebhook")
                /\ Log({LogLine("Missing order_id in payment success webhook", <<>>)})
                /\ UNCHANGED payments
           ELSE \E out \in ExecOutcomes(req[r].ctxDone) :
                  /\ payments' =
                       IF Applied(out)
                       THEN UpdatePaymentStatus(payments, orderID, "SUCCESS",
                                Some(cfPaymentID), Some(paymentMethod), paymentTime)
                       ELSE payments
                  /\ HandlerCalled(r, "handlePaymentSuccessWebhook",
                                   "UpdatePaymentStatus", out)
                  /\ Log(UpdateFailed(
                        "Failed to update payment status for successful payment: %v", out))
    /\ UNCHANGED <<refunds, webhooks, settlements, split_settlements, outbound,
                   delivered, calls, vf>>

\* faulty variant: the payment id, method and time of the payment are kept
handlePaymentFailedKeepsFields(r) ==
    /\ Dispatched(r, "handlePaymentFailedWebhook")
    /\ LET data == req[r].webhookData.Data
           orderID == AsString(data, "order_id")
       IN  IF ~IsString(data, "order_id")
           THEN /\ HandlerReturns(r, "handlePaymentFailedWebhook")
                /\ Log({LogLine("Missing order_id in payment failed webhook", <<>>)})
                /\ UNCHANGED payments
           ELSE \E out \in ExecOutcomes(req[r].ctxDone) :
                  /\ payments' =
                       IF Applied(out)
                       THEN UpdatePaymentStatusOnly(payments, orderID, "FAILED",
                                                    Nil, Nil, Nil)
                       ELSE payments
                  /\ HandlerCalled(r, "handlePaymentFailedWebhook",
                                   "UpdatePaymentStatus", out)
                  /\ Log(UpdateFailed(
                        "Failed to update payment status for failed payment: %v", out))
    /\ UNCHANGED <<refunds, webhooks, settlements, split_settlements, outbound,
                   delivered, calls, vf>>

handlePaymentFailedWebhook(r) ==
    /\ Dispatched(r, "handlePaymentFailedWebhook")
    /\ LET data == req[r].webhookData.Data
           orderID == AsString(data, "order_id")
       IN  IF ~IsString(data, "order_id")
           THEN /\ HandlerReturns(r, "handlePaymentFailedWebhook")
                /\ Log({LogLine("Missing order_id in payment failed webhook", <<>>)})
                /\ UNCHANGED payments
           ELSE \E out \in ExecOutcomes(req[r].ctxDone) :
                  /\ payments' =
                       IF Applied(out)
                       THEN UpdatePaymentStatus(payments, orderID, "FAILED", Nil, Nil, Nil)
                       ELSE payments
                  /\ HandlerCalled(r, "handlePaymentFailedWebhook",
                                   "UpdatePaymentStatus", out)
                  /\ Log(UpdateFailed(
                        "Failed to update payment status for failed payment: %v", out))
    /\ UNCHANGED <<refunds, webhooks, settlements, split_settlements, outbound,
                   delivered, calls, vf>>

handleRefundStatusWebhook(r) ==
    /\ Dispatched(r, "handleRefundStatusWebhook")
    /\ LET data == req[r].webhookData.Data
           refundID == AsString(data, "refund_id")
           refundStatus == AsString(data, "refund_status")
           processedAt == OptionalTime(data, "processed_at")
       IN  IF ~IsString(data, "refund_id")
           THEN /\ HandlerReturns(r, "handleRefundStatusWebhook")
                /\ Log({LogLine("Missing refund_id in refund status webhook", <<>>)})
                /\ UNCHANGED refunds
           ELSE \E out \in ExecOutcomes(req[r].ctxDone) :
                  /\ refunds' =
                       IF Applied(out)
                       THEN UpdateRefundStatus(refunds, refundID, refundStatus, processedAt)
                       ELSE refunds
                  /\ HandlerCalled(r, "handleRefundStatusWebhook",
                                   "UpdateRefundStatus", out)
                  /\ Log(UpdateFailed("Failed to update refund status: %v", out))
    /\ UNCHANGED <<payments, webhooks, settlements, split_settlements, outbound,
                   delivered, calls, vf>>

\* faulty variant: the payment the settlement event names is marked SETTLED
handleSettlementMarksPayment(r) ==
    /\ Dispatched(r, "handleSettlementStatusWebhook")
    /\ HandlerReturns(r, "handleSettlementStatusWebhook")
    /\ Log({LogLine("Settlement webhook received: %+v",
                    <<V("data", req[r].webhookData.Data)>>)})
    /\ payments' = UpdatePaymentStatusOnly(payments,
                       AsString(req[r].webhookData.Data, "order_id"), "SETTLED",
                       Nil, Nil, Nil)
    /\ UNCHANGED <<refunds, webhooks, settlements, split_settlements, outbound,
                   delivered, calls, vf>>

handleSettlementStatusWebhook(r) ==
    /\ Dispatched(r, "handleSettlementStatusWebhook")
    /\ HandlerReturns(r, "handleSettlementStatusWebhook")
    /\ Log({LogLine("Settlement webhook received: %+v",
                    <<V("data", req[r].webhookData.Data)>>)})
    /\ UNCHANGED <<storeVars, outbound, delivered, calls, vf>>

\* default: log.Printf("Unknown webhook type")
UnknownWebhookType(r) ==
    /\ Dispatched(r, "default")
    /\ Goto(r, "default", "respond")
    /\ Log({LogLine("Unknown webhook type: %s", <<V("str", req[r].webhookData.Type)>>)})
    /\ UNCHANGED <<storeVars, outbound, delivered, calls, vf>>

\* faulty variant: the rows of the answered request are marked PROCESSED
RespondMarksProcessed(r) ==
    /\ req[r].pc = "respond"
    /\ Reply(r, "Respond", StatusOK, "success")
    /\ webhooks' = [i \in DOMAIN webhooks |->
                       IF webhooks[i].id = req[r].delivery
                       THEN [webhooks[i] EXCEPT !.status = "PROCESSED"]
                       ELSE webhooks[i]]
    /\ UNCHANGED <<payments, refunds, settlements, split_settlements, logs, outbound,
                   delivered, calls, vf>>

Respond(r) ==
    /\ req[r].pc = "respond"
    /\ Reply(r, "Respond", StatusOK, "success")
    /\ UNCHANGED <<storeVars, logs, outbound, delivered, calls, vf>>

\* the response is written and the goroutine is free for the next request
Complete(r) ==
    /\ req[r].pc = "done"
    /\ req' = [req EXCEPT ![r] = IdleReq]
    /\ UNCHANGED <<storeVars, logs, outbound, delivered, calls, vf>>

Next ==
    \E r \in Workers :
        \/ Receive(r)
        \/ CheckHeaders(r)
        \/ ReadBody(r)
        \/ VerifySignature(r)
        \/ ParseBody(r)
        \/ LogWebhook(r)
        \/ handlePaymentSuccessWebhook(r)
        \/ handlePaymentFailedWebhook(r)
        \/ handleRefundStatusWebhook(r)
        \/ handleSettlementStatusWebhook(r)
        \/ UnknownWebhookType(r)
        \/ Respond(r)
        \/ Complete(r)

Spec == Init /\ [][Next]_vars

(***************************************************************************)
(* CashfreeClient: the requests the service sends to the gateway.  Every   *)
(* method sets the headers getAuthHeaders returns.  A call ends with the   *)
(* gateway's 200 ("ok"), with another status ("status") or without an      *)
(* answer ("neterr"); resty sends the same request again when it retries.  *)
(***************************************************************************)
ClientID == <<105, 100>>

getAuthHeaders ==
    [ h \in { "X-Client-Id", "X-Client-Secret", "Content-Type", "Accept",
              "x-api-version" } |->
        CASE h = "X-Client-Id"     -> V("bytes", ClientID)
          [] h = "X-Client-Secret" -> V("bytes", ClientSecret)
          [] h = "x-api-version"   -> V("str", "2023-08-01")
          [] OTHER                 -> V("str", "application/json") ]

GatewayRequest(method, path, body) ==
    [ to |-> "gateway", method |-> method, path |-> path, code |-> 0,
      headers |-> getAuthHeaders, body |-> body ]

CashfreeCreateOrder(orderID) ==
    GatewayRequest("POST", <<"orders">>, { <<"order_id", V("str", orderID)>> })
CashfreeGetOrderStatus(orderID) == GatewayRequest("GET", <<"orders", orderID>>, {})
CashfreeGetPayments(orderID) ==
    GatewayRequest("GET", <<"orders", orderID, "payments">>, {})
CashfreeRefundPayment(orderID, refundID) ==
    GatewayRequest("POST", <<"orders", orderID, "refunds">>,
                   { <<"refund_id", V("str", refundID)>> })
CashfreeCancelOrder(orderID) ==
    GatewayRequest("PATCH", <<"orders", orderID, "cancel">>, {})
CashfreeCreateSettlement(orderID, splits) ==
    GatewayRequest("POST", <<"orders", orderID, "settlements">>,
                   { <<"vendor_id", V("str", splits[i])>> : i \in DOMAIN splits })

GatewayResults == { "ok", "status", "neterr" }

\* the error a client method returns: the gateway's status and response text,
\* or the transport's error
ClientErr(res) ==
    V("err", CASE res = "status" -> "cashfree API returned status 500: internal"
               [] res = "empty"  -> "no payments found for order"
               [] OTHER          -> "request failed: connection refused")

(***************************************************************************)
(* CORSMiddleware, which runs before the handler of every route: it sets   *)
(* the headers of the response, and answers an OPTIONS request itself.     *)
(***************************************************************************)
CORSHeaders ==
    [ h \in { "Access-Control-Allow-Origin", "Access-Control-Allow-Credentials",
              "Access-Control-Allow-Headers", "Access-Control-Allow-Methods" } |->
        CASE h = "Access-Control-Allow-Origin"      -> V("str", "*")
          [] h = "Access-Control-Allow-Credentials" -> V("str", "true")
          [] h = "Access-Control-Allow-Methods"     -> V("str", "POST, OPTIONS, GET, PUT, DELETE")
          [] OTHER -> V("str", "Content-Type, Content-Length, Accept-Encoding, X-CSRF-Token, Authorization, accept, origin, Cache-Control, X-Requested-With") ]

\* faulty variant: an OPTIONS request is passed on like any other
CORSMiddlewarePassesOptions(method) ==
    [ headers |-> CORSHeaders, abort |-> FALSE, code |-> 0 ]

\* faulty variant: the headers are set for OPTIONS requests only
CORSMiddlewareBareResponses(method) ==
    [ headers |-> IF method = "OPTIONS" THEN CORSHeaders
                  ELSE [ h \in DOMAIN CORSHeaders |-> V("str", "") ],
      abort |-> method = "OPTIONS", code |-> IF method = "OPTIONS" THEN 204 ELSE 0 ]

\* c.Header(...) four times, then AbortWithStatus(204) for OPTIONS, else c.Next()
CORSMiddleware(method) ==
    [ headers |-> CORSHeaders,
      abort   |-> method = "OPTIONS",
      code    |-> IF method = "OPTIONS" THEN 204 ELSE 0 ]

\* the routes of the API with the method each is registered for
Routes ==
    { <<"POST", "CreatePaymentSession">>, <<"POST", "VerifyPayment">>,
      <<"GET", "GetPaymentDetails">>, <<"POST", "RefundPayment">>,
      <<"POST", "CancelPayment">>, <<"POST", "CreateSplitSettlement">>,
      <<"GET", "GetSettlementDetails">>, <<"POST", "HandleWebhook">>,
      <<"GET", "GetRefundDetails">>, <<"GET", "GetAllPayments">> }

MethodOf(handler) == (CHOOSE route \in Routes : route[2] = handler)[1]

(***************************************************************************)
(* The API handlers of PaymentHandler.  A handler sends its requests to    *)
(* the gateway, runs its statements on the store under one context, writes *)
(* its log lines and answers the caller.  calls keeps, for every call, the *)
(* handler, its input, the steps it took with their outcomes, the status   *)
(* code of its answer and the store as it was when the call arrived.       *)
(***************************************************************************)
\* c.JSON(code, body), with the headers the middleware set
Response(method, code, body) ==
    [ to |-> "client", method |-> "", path |-> <<>>, code |-> code,
      headers |-> CORSMiddleware(method).headers, body |-> body ]

ErrorBody(text) == { <<"error", V("str", text)>> }

\* the outcomes of a step: those in outcomes when the handler reaches the step
OutcomesIf(reached, outcomes, unreached) == IF reached THEN outcomes ELSE {unreached}

Call(handler, input, trace, code) ==
    [ handler |-> handler, method |-> MethodOf(handler), input |-> input,
      trace |-> trace, code |-> code, pc |-> "done", before |-> storeVars,
      local |-> Nil ]

\* the middleware passed the request on; the handler ran call, sent the gateway
\* requests, answered with code and body, and wrote the lines
Serve(call, requests, body, lines) ==
    /\ Len(calls) < MaxCalls
    /\ ~CORSMiddleware(call.method).abort
    /\ calls' = Append(calls, call)
    /\ outbound' = outbound \cup requests \cup { Response(call.method, call.code, body) }
    /\ logs' = logs \cup lines
    /\ UNCHANGED <<req, delivered, vf>>

\* an OPTIONS request for a route: the middleware answers, or the router does
\* when the middleware passes it on (no route is registered for OPTIONS)
Preflight ==
    \E route \in Routes :
        LET cors == CORSMiddleware("OPTIONS")
            code == IF cors.abort THEN cors.code ELSE 404
        IN  /\ Len(calls) < MaxCalls
            /\ calls' = Append(calls,
                   [ Call(route[2], route[2], <<>>, code)
                       EXCEPT !.method = "OPTIONS", !.handler = "CORSMiddleware" ])
            /\ outbound' = outbound \cup
                   { [ to |-> "client", method |-> "", path |-> <<>>, code |-> code,
                       headers |-> cors.headers, body |-> {} ] }
            /\ UNCHANGED <<storeVars, logs, req, delivered, vf>>

\* the order ids and refund ids callers ask about, and the ids of new records
OrderIDs == { "o1", "o9" }
RefundIDs == { "r1", "r9" }
NewOrderIDs == { "o1", "o3" }
NewRefundIDs == { "r3" }
OrderStatuses == { "ACTIVE", "PAID" }

\* the first payment the gateway reports for a paid order
PaymentDetails == [ CFPaymentID |-> "p2", PaymentMethod |-> "upi", PaymentTime |-> 3 ]

\* the error GetPaymentByOrderID returns: no row, or the failed query
GetPaymentErr(query) ==
    IF query = "ok" THEN V("err", "payment not found for order_id")
    ELSE V("err", "exec failed")

\* the payment row as the caller sees it
PaymentBody(orderID, row) ==
    { <<"order_id", V("str", orderID)>>, <<"status", V("str", row.status)>>,
      <<"cf_payment_id", V("opt", row.cf_payment_id)>> }

\* INSERT INTO payments: order_id is UNIQUE
CreatePayment(rows, orderID) ==
    [o \in DOMAIN rows \cup {orderID} |-> IF o = orderID THEN NewPayment ELSE rows[o]]

\* INSERT INTO refunds: refund_id is UNIQUE
CreateRefund(rows, refundID, orderID, status) ==
    [f \in DOMAIN rows \cup {refundID} |->
        IF f = refundID
        THEN [ order_id |-> orderID, status |-> status, processed_at |-> Nil ]
        ELSE rows[f]]

CreatePaymentSession ==
    \E orderID \in NewOrderIDs, bound \in BOOLEAN :
    \E res \in OutcomesIf(bound, GatewayResults, "ok") :
    \E out \in OutcomesIf(bound /\ res = "ok", ExecOutcomes(FALSE), "ok") :
        LET unique == orderID \notin DOMAIN payments
            saved == out = "ok" /\ unique
            err == IF unique THEN StoreErr(out) ELSE V("err", "duplicate key value")
            trace == IF ~bound THEN <<>>
                     ELSE IF res /= "ok" THEN << Step("CreateOrder", res) >>
                     ELSE << Step("CreateOrder", res),
                             Step("CreatePayment", IF unique THEN out ELSE "error") >>
            request == { CashfreeCreateOrder(orderID) }
        IN  /\ payments' = IF bound /\ res = "ok" /\ Applied(out) /\ unique
                           THEN CreatePayment(payments, orderID) ELSE payments
            /\ UNCHANGED <<refunds, webhooks, settlements, split_settlements>>
            /\ IF ~bound
               THEN Serve(Call("CreatePaymentSession", orderID, trace, 400), {},
                          ErrorBody("invalid request"), {})
               ELSE IF res /= "ok"
               THEN Serve(Call("CreatePaymentSession", orderID, trace, 500), request,
                          ErrorBody("Failed to create payment session"),
                          { LogLine("Failed to create Cashfree order: %v",
                                    <<ClientErr(res)>>) })
               ELSE IF ~saved
               THEN Serve(Call("CreatePaymentSession", orderID, trace, 500), request,
                          ErrorBody("Failed to save payment"),
                          { LogLine("Failed to save payment to database: %v", <<err>>) })
               ELSE Serve(Call("CreatePaymentSession", orderID, trace, 200), request,
                          { <<"order_id", V("str", orderID)>>,
                            <<"order_status", V("str", "ACTIVE")>> }, {})

\* the outcomes of GetPayments: also a 200 with an empty list
PaymentsResults == GatewayResults \cup { "empty" }

VerifyPayment ==
    \E orderID \in OrderIDs, bound \in BOOLEAN :
    \E res \in OutcomesIf(bound, GatewayResults, "ok") :
    \E status \in OutcomesIf(bound /\ res = "ok", OrderStatuses, "ACTIVE") :
    \E res2 \in OutcomesIf(bound /\ res = "ok" /\ status = "PAID", PaymentsResults, "ok") :
    \E out \in OutcomesIf(bound /\ res = "ok" /\ res2 = "ok", ExecOutcomes(FALSE), "ok") :
        LET paid == status = "PAID"
            statusRequest == { CashfreeGetOrderStatus(orderID) }
            requests == IF paid THEN statusRequest \cup { CashfreeGetPayments(orderID) }
                        ELSE statusRequest
            input == [ orderID |-> orderID, status |-> status ]
            statusStep == << Step("GetOrderStatus", res) >>
            detailsStep == IF paid THEN << Step("GetPayments", res2) >> ELSE <<>>
            updateStep == << Step("UpdatePaymentStatus", out) >>
            updated == bound /\ res = "ok" /\ (paid => res2 = "ok") /\ Applied(out)
        IN  /\ payments' =
                 IF ~updated THEN payments
                 ELSE IF paid
                 THEN UpdatePaymentStatus(payments, orderID, status,
                          Some(PaymentDetails.CFPaymentID),
                          Some(PaymentDetails.PaymentMethod),
                          Some(PaymentDetails.PaymentTime))
                 ELSE UpdatePaymentStatus(payments, orderID, status, Nil, Nil, Nil)
            /\ UNCHANGED <<refunds, webhooks, settlements, split_settlements>>
            /\ IF ~bound
               THEN Serve(Call("VerifyPayment", input, <<>>, 400), {},
                          ErrorBody("invalid request"), {})
               ELSE IF res /= "ok"
               THEN Serve(Call("VerifyPayment", input, statusStep, 500), statusRequest,
                          ErrorBody("Failed to verify payment"),
                          { LogLine("Failed to get order status: %v", <<ClientErr(res)>>) })
               ELSE IF paid /\ res2 /= "ok"
               THEN Serve(Call("VerifyPayment", input, statusStep \o detailsStep, 500),
                          requests, ErrorBody("Failed to get payment details"),
                          { LogLine("Failed to get payment details: %v",
                                    <<ClientErr(res2)>>) })
               ELSE Serve(Call("VerifyPayment", input,
                               statusStep \o detailsStep \o updateStep, 200),
                          requests,
                          { <<"order_id", V("str", orderID)>>,
                            <<"order_status", V("str", status)>> }
                            \cup (IF paid
                                  THEN { <<"cf_payment_id",
                                           V("opt", Some(PaymentDetails.CFPaymentID))>> }
                                  ELSE {}),
                          UpdateFailed("Failed to update payment status: %v", out))

\* GetPaymentDetails up to the gateway's answer: the payment is read, the order
\* status is asked for, and the call is answered unless the status differs
GetPaymentDetailsLookup ==
    \E orderID \in OrderIDs, query \in {"ok", "error"} :
    \E res \in OutcomesIf(query = "ok" /\ orderID \in DOMAIN payments, GatewayResults, "ok") :
    \E status \in OutcomesIf(res = "ok", OrderStatuses, "ACTIVE") :
        LET found == query = "ok" /\ orderID \in DOMAIN payments
            payment == payments[orderID]
            input == [ orderID |-> orderID, status |-> status ]
            lookup == << Step("GetPaymentByOrderID", IF found THEN "ok" ELSE "error") >>
            asked == lookup \o << Step("GetOrderStatus", res) >>
            request == { CashfreeGetOrderStatus(orderID) }
        IN  /\ UNCHANGED storeVars
            /\ IF ~found
               THEN Serve(Call("GetPaymentDetails", input, lookup, 404), {},
                          ErrorBody("Payment not found"),
                          { LogLine("Failed to get payment from database: %v",
                                    <<GetPaymentErr(query)>>) })
               ELSE IF res /= "ok"
               THEN Serve(Call("GetPaymentDetails", input, asked, 200), request,
                          PaymentBody(orderID, payment),
                          { LogLine("Failed to get order status from Cashfree: %v",
                                    <<ClientErr(res)>>) })
               ELSE IF payment.status = status
               THEN Serve(Call("GetPaymentDetails", input, asked, 200), request,
                          PaymentBody(orderID, payment), {})
               ELSE /\ Len(calls) < MaxCalls
                    /\ ~CORSMiddleware("GET").abort
                    /\ calls' = Append(calls,
                           [ Call("GetPaymentDetails", input, asked, 0)
                               EXCEPT !.pc = "update", !.local = payment ])
                    /\ outbound' = outbound \cup request
                    /\ UNCHANGED <<logs, req, delivered, vf>>

\* the rest of GetPaymentDetails: the status is written, with the payment id,
\* method and time the handler read, and the call is answered
GetPaymentDetailsUpdate ==
    \E i \in DOMAIN calls, out \in ExecOutcomes(FALSE) :
        LET orderID == calls[i].input.orderID
            status == calls[i].input.status
            payment == calls[i].local
        IN  /\ calls[i].handler = "GetPaymentDetails"
            /\ calls[i].pc = "update"
            /\ payments' = IF Applied(out)
                           THEN UpdatePaymentStatus(payments, orderID, status,
                                    payment.cf_payment_id, payment.payment_method,
                                    payment.payment_time)
                           ELSE payments
            /\ calls' = [calls EXCEPT ![i].pc = "done", ![i].code = 200,
                                      ![i].trace = Append(@, Step("UpdatePaymentStatus", out))]
            /\ outbound' = outbound \cup
                   { Response("GET", 200,
                              PaymentBody(orderID, [payment EXCEPT !.status = status])) }
            /\ logs' = logs \cup UpdateFailed("Failed to update payment status: %v", out)
            /\ UNCHANGED <<refunds, webhooks, settlements, split_settlements, req,
                           delivered, vf>>

RefundPayment ==
    \E orderID \in OrderIDs, refundID \in NewRefundIDs, bound \in BOOLEAN :
    \E res \in OutcomesIf(bound, GatewayResults, "ok") :
    \E query \in OutcomesIf(bound /\ res = "ok", {"ok", "error"}, "ok") :
    \E out \in OutcomesIf(bound /\ res = "ok" /\ query = "ok"
                             /\ orderID \in DOMAIN payments,
                          ExecOutcomes(FALSE), "ok") :
        LET found == query = "ok" /\ orderID \in DOMAIN payments
            unique == refundID \notin DOMAIN refunds
            saved == out = "ok" /\ unique
            err == IF unique THEN StoreErr(out) ELSE V("err", "duplicate key value")
            request == { CashfreeRefundPayment(orderID, refundID) }
            input == [ orderID |-> orderID, refundID |-> refundID ]
            refund == << Step("RefundPayment", res) >>
            lookup == refund \o
                        << Step("GetPaymentByOrderID", IF found THEN "ok" ELSE "error") >>
            insert == lookup \o << Step("CreateRefund", IF unique THEN out ELSE "error") >>
        IN  /\ refunds' = IF bound /\ res = "ok" /\ found /\ Applied(out) /\ unique
                          THEN CreateRefund(refunds, refundID, orderID, "PENDING")
                          ELSE refunds
            /\ UNCHANGED <<payments, webhooks, settlements, split_settlements>>
            /\ IF ~bound
               THEN Serve(Call("RefundPayment", input, <<>>, 400), {},
                          ErrorBody("invalid request"), {})
               ELSE IF res /= "ok"
               THEN Serve(Call("RefundPayment", input, refund, 500), request,
                          ErrorBody("Failed to create refund"),
                          { LogLine("Failed to create refund in Cashfree: %v",
                                    <<ClientErr(res)>>) })
               ELSE IF ~found
               THEN Serve(Call("RefundPayment", input, lookup, 404), request,
                          ErrorBody("Payment not found"),
                          { LogLine("Failed to get payment: %v", <<GetPaymentErr(query)>>) })
               ELSE Serve(Call("RefundPayment", input, insert, 200), request,
                          { <<"refund_id", V("str", refundID)>>,
                            <<"order_id", V("str", orderID)>>,
                            <<"refund_status", V("str", "PENDING")>> },
                          IF saved THEN {}
                          ELSE { LogLine("Failed to save refund to database: %v", <<err>>) })

\* faulty variant: the payment is marked before the gateway is asked
CancelPaymentUpdatesFirst ==
    \E orderID \in OrderIDs, res \in GatewayResults, out \in ExecOutcomes(FALSE) :
        LET request == { CashfreeCancelOrder(orderID) }
            update == << Step("UpdatePaymentStatus", out), Step("CancelOrder", res) >>
        IN  /\ payments' = IF Applied(out)
                           THEN UpdatePaymentStatus(payments, orderID, "CANCELLED",
                                                    Nil, Nil, Nil)
                           ELSE payments
            /\ UNCHANGED <<refunds, webhooks, settlements, split_settlements>>
            /\ IF res /= "ok"
               THEN Serve(Call("CancelPayment", orderID, update, 500), request,
                          ErrorBody("Failed to cancel payment"),
                          { LogLine("Failed to cancel order in Cashfree: %v",
                                    <<ClientErr(res)>>) })
               ELSE Serve(Call("CancelPayment", orderID, update, 200), request,
                          { <<"order_id", V("str", orderID)>>,
                            <<"status", V("str", "CANCELLED")>> },
                          UpdateFailed("Failed to update payment status: %v", out))

CancelPayment ==
    \E orderID \in OrderIDs, res \in GatewayResults :
    \E out \in OutcomesIf(res = "ok", ExecOutcomes(FALSE), "ok") :
        LET request == { CashfreeCancelOrder(orderID) }
            cancel == << Step("CancelOrder", res) >>
            update == cancel \o << Step("UpdatePaymentStatus", out) >>
        IN  /\ payments' = IF res = "ok" /\ Applied(out)
                           THEN UpdatePaymentStatus(payments, orderID, "CANCELLED",
                                                    Nil, Nil, Nil)
                           ELSE payments
            /\ UNCHANGED <<refunds, webhooks, settlements, split_settlements>>
            /\ IF res /= "ok"
               THEN Serve(Call("CancelPayment", orderID, cancel, 500), request,
                          ErrorBody("Failed to cancel payment"),
                          { LogLine("Failed to cancel order in Cashfree: %v",
                                    <<ClientErr(res)>>) })
               ELSE Serve(Call("CancelPayment", orderID, update, 200), request,
                          { <<"order_id", V("str", orderID)>>,
                            <<"status", V("str", "CANCELLED")>> },
                          UpdateFailed("Failed to update payment status: %v", out))

\* the splits a caller asks for: by amount, by percentage, or with neither
SplitByAmount == [ vendor_id |-> "v1", split_type |-> "AMOUNT" ]
SplitByPercentage == [ vendor_id |-> "v2", split_type |-> "PERCENTAGE" ]
SplitUntyped == [ vendor_id |-> "v3", split_type |-> "" ]
SplitRequests ==
    { <<>>, <<SplitByAmount>>, <<SplitByAmount, SplitByPercentage>>,
      <<SplitByAmount, SplitUntyped>>, <<SplitUntyped, SplitByPercentage>> }

\* CHECK (split_type IN ('AMOUNT', 'PERCENTAGE'))
SplitTypeChecked(split) == split.split_type \in { "AMOUNT", "PERCENTAGE" }

SplitRow(orderID, split) ==
    [ order_id |-> orderID, vendor_id |-> split.vendor_id,
      split_type |-> split.split_type, status |-> "PENDING" ]

\* the inserts of the loop, in order; the first that fails ends the loop.
\* fault is the insert the store fails (0: none)
InsertSplits(rows, orderID, splits, fault) ==
    LET F[i \in 0..Len(splits)] ==
            IF i = 0 THEN [ ok |-> TRUE, rows |-> rows ]
            ELSE IF ~F[i - 1].ok \/ i = fault \/ ~SplitTypeChecked(splits[i])
                 THEN [ ok |-> FALSE, rows |-> F[i - 1].rows ]
                 ELSE [ ok |-> TRUE,
                        rows |-> Append(F[i - 1].rows, SplitRow(orderID, splits[i])) ]
    IN  F[Len(splits)]

\* faulty variant: the inserts run outside a transaction
RepoCreateSplitSettlementNoTx(rows, orderID, splits, fault, commit) ==
    LET inserted == InsertSplits(rows, orderID, splits, fault)
    IN  [ rows |-> IF fault = -1 THEN rows ELSE inserted.rows,
          out  |-> IF fault = -1 \/ ~inserted.ok THEN "error" ELSE commit ]

\* Begin, the inserts, Commit; the deferred Rollback discards the inserts of a
\* transaction that was not committed.  fault -1: Begin fails
RepoCreateSplitSettlement(rows, orderID, splits, fault, commit) ==
    LET inserted == InsertSplits(rows, orderID, splits, fault)
    IN  IF fault = -1 \/ ~inserted.ok THEN [ rows |-> rows, out |-> "error" ]
        ELSE [ rows |-> IF Applied(commit) THEN inserted.rows ELSE rows,
               out  |-> commit ]

CreateSplitSettlement ==
    \E orderID \in OrderIDs, splits \in SplitRequests, bound \in BOOLEAN :
    \E query \in OutcomesIf(bound, {"ok", "error"}, "ok") :
    \E res \in OutcomesIf(bound /\ query = "ok" /\ orderID \in DOMAIN payments,
                          GatewayResults, "ok") :
    \E fault \in OutcomesIf(bound /\ query = "ok" /\ orderID \in DOMAIN payments
                               /\ res = "ok", -1..Len(splits), 0) :
    \E commit \in OutcomesIf(bound /\ query = "ok" /\ orderID \in DOMAIN payments
                                /\ res = "ok" /\ fault = 0
                                /\ \A i \in DOMAIN splits : SplitTypeChecked(splits[i]),
                             ExecOutcomes(FALSE), "ok") :
        LET found == query = "ok" /\ orderID \in DOMAIN payments
            request == { CashfreeCreateSettlement(orderID,
                             [ i \in DOMAIN splits |-> splits[i].vendor_id ]) }
            stored == RepoCreateSplitSettlement(split_settlements, orderID, splits,
                                                fault, commit)
            input == [ orderID |-> orderID, splits |-> splits ]
            lookup == << Step("GetPaymentByOrderID", IF found THEN "ok" ELSE "error") >>
            settle == lookup \o << Step("CreateSettlement", res) >>
            save == settle \o << Step("CreateSplitSettlement", stored.out) >>
        IN  /\ split_settlements' = IF bound /\ found /\ res = "ok"
                                    THEN stored.rows ELSE split_settlements
            /\ UNCHANGED <<payments, refunds, webhooks, settlements>>
            /\ IF ~bound
               THEN Serve(Call("CreateSplitSettlement", input, <<>>, 400), {},
                          ErrorBody("invalid request"), {})
               ELSE IF ~found
               THEN Serve(Call("CreateSplitSettlement", input, lookup, 404), {},
                          ErrorBody("Payment not found"),
                          { LogLine("Failed to get payment: %v", <<GetPaymentErr(query)>>) })
               ELSE IF res /= "ok"
               THEN Serve(Call("CreateSplitSettlement", input, settle, 500), request,
                          ErrorBody("Failed to create split settlement"),
                          { LogLine("Failed to create settlement in Cashfree: %v",
                                    <<ClientErr(res)>>) })
               ELSE Serve(Call("CreateSplitSettlement", input, save, 200), request,
                          { <<"order_id", V("str", orderID)>>,
                            <<"settlement_status", V("str", "PENDING")>> },
                          UpdateFailed("Failed to save split settlement to database: %v",
                                       stored.out))

\* no handler inserts into settlements, so the lookup finds no row
GetSettlementDetails ==
    \E settlementID \in { "s1" }, query \in {"ok", "error"} :
        LET found == query = "ok" /\ settlementID \in DOMAIN settlements
            lookup == << Step("GetSettlementByID", IF found THEN "ok" ELSE "error") >>
        IN  /\ UNCHANGED storeVars
            /\ IF found
               THEN Serve(Call("GetSettlementDetails", settlementID, lookup, 200), {},
                          { <<"settlement_id", V("str", settlementID)>> }, {})
               ELSE Serve(Call("GetSettlementDetails", settlementID, lookup, 404), {},
                          ErrorBody("Settlement not found"),
                          { LogLine("Failed to get settlement: %v",
                                    <<IF query = "ok"
                                      THEN V("err", "settlement not found for settlement_id")
                                      ELSE V("err", "exec failed")>>) })

GetRefundDetails ==
    \E refundID \in RefundIDs, query \in {"ok", "error"} :
        LET found == query = "ok" /\ refundID \in DOMAIN refunds
            lookup == << Step("GetRefundByID", IF found THEN "ok" ELSE "error") >>
        IN  /\ UNCHANGED storeVars
            /\ IF found
               THEN Serve(Call("GetRefundDetails", refundID, lookup, 200), {},
                          { <<"refund_id", V("str", refundID)>>,
                            <<"status", V("str", refunds[refundID].status)>> }, {})
               ELSE Serve(Call("GetRefundDetails", refundID, lookup, 404), {},
                          ErrorBody("Refund not found"),
                          { LogLine("Failed to get refund: %v",
                                    <<IF query = "ok"
                                      THEN V("err", "refund not found for refund_id")
                                      ELSE V("err", "exec failed")>>) })

(***************************************************************************)
(* strconv.Atoi on a text, a sequence of characters: an optional sign and  *)
(* decimal digits, and a value that fits the 64 bit int.  Values of 10^9   *)
(* and more are kept as 10^9: the handler compares a value with 0 and 100  *)
(* only.                                                                   *)
(***************************************************************************)
DigitChars == << "0", "1", "2", "3", "4", "5", "6", "7", "8", "9" >>
IsDigit(c) == \E d \in DOMAIN DigitChars : DigitChars[d] = c
DigitOf(c) == (CHOOSE d \in DOMAIN DigitChars : DigitChars[d] = c) - 1

\* math.MaxInt64, 9223372036854775807, and the digits of math.MinInt64
MaxInt64Digits ==
    << "9", "2", "2", "3", "3", "7", "2", "0", "3", "6", "8", "5", "4", "7", "7", "5",
       "8", "0", "7" >>
MinInt64Digits == [MaxInt64Digits EXCEPT ![19] = "8"]

RECURSIVE StripZeros(_)
StripZeros(digits) ==
    IF Len(digits) > 1 /\ Head(digits) = "0" THEN StripZeros(Tail(digits)) ELSE digits

\* a <= b for digit sequences of the same length
DigitsLeq(a, b) ==
    \/ a = b
    \/ \E i \in DOMAIN a :
          /\ DigitOf(a[i]) < DigitOf(b[i])
          /\ \A j \in 1..(i - 1) : a[j] = b[j]

FitsInt64(digits, negative) ==
    LET significant == StripZeros(digits)
    IN  \/ Len(significant) < 19
        \/ /\ Len(significant) = 19
           /\ DigitsLeq(significant, IF negative THEN MinInt64Digits ELSE MaxInt64Digits)

Magnitude(digits) ==
    LET F[i \in 0..Len(digits)] ==
            IF i = 0 THEN 0
            ELSE IF F[i - 1] >= 100000000 THEN 1000000000
            ELSE F[i - 1] * 10 + DigitOf(digits[i])
    IN  F[Len(digits)]

Atoi(text) ==
    LET signed == text /= <<>> /\ Head(text) \in { "+", "-" }
        negative == text /= <<>> /\ Head(text) = "-"
        digits == IF signed THEN Tail(text) ELSE text
    IN  IF digits = <<>> \/ \E i \in DOMAIN digits : ~IsDigit(digits[i])
        THEN [ err |-> "syntax", val |-> 0 ]
        ELSE IF ~FitsInt64(digits, negative)
        THEN [ err |-> "range", val |-> IF negative THEN -1000000000 ELSE 1000000000 ]
        ELSE [ err |-> "", val |-> IF negative THEN 0 - Magnitude(digits)
                                    ELSE Magnitude(digits) ]

\* c.DefaultQuery(key, default): the default when the parameter is absent
DefaultQuery(query, default) == IF query = Nil THEN default ELSE query[1]

\* faulty variant: the limit is not capped
EffectiveLimitUncapped(limitStr) ==
    LET parsed == Atoi(limitStr)
    IN  IF parsed.err /= "" \/ parsed.val <= 0 THEN 10 ELSE parsed.val

\* limit as GetAllPayments passes it to the store
EffectiveLimit(limitStr) ==
    LET parsed == Atoi(limitStr)
        limit == IF parsed.err /= "" \/ parsed.val <= 0 THEN 10 ELSE parsed.val
    IN  IF limit > 100 THEN 100 ELSE limit

\* offset as GetAllPayments passes it to the store
EffectiveOffset(offsetStr) ==
    LET parsed == Atoi(offsetStr)
    IN  IF parsed.err /= "" \/ parsed.val < 0 THEN 0 ELSE parsed.val

\* the order ids by created_at, newest first: o3 is created by a session of the
\* behaviour, after the two rows the store starts with
NewestFirst == <<"o3", "o2", "o1">>

\* SELECT ... FROM payments ORDER BY created_at DESC LIMIT limit OFFSET offset
RepoGetAllPayments(rows, limit, offset) ==
    LET ordered == Select(NewestFirst, LAMBDA o : o \in DOMAIN rows)
        last == IF offset + limit < Len(ordered) THEN offset + limit ELSE Len(ordered)
    IN  SubSeq(ordered, offset + 1, last)

\* the limit and offset parameters callers send: absent, or a text
TwentyNines == [ i \in 1..20 |-> "9" ]
LimitQueries ==
    { Nil, Some(<<>>), Some(<<"a", "b">>), Some(<<"0">>), Some(<<"-", "5">>),
      Some(<<"1">>), Some(<<"1", "0", "0">>), Some(<<"1", "0", "1">>),
      Some(TwentyNines) }
OffsetQueries ==
    { Nil, Some(<<"x">>), Some(<<"-", "1">>), Some(<<"1">>), Some(<<"5">>),
      Some(TwentyNines) }
\* every limit with the first page, and every offset with pages of one row
ListQueries ==
    { <<limitQuery, Nil>> : limitQuery \in LimitQueries }
      \cup { <<Some(<<"1">>), offsetQuery>> : offsetQuery \in OffsetQueries }

GetAllPayments ==
    \E queries \in ListQueries, query \in {"ok", "error"} :
        LET limitQuery == queries[1]
            offsetQuery == queries[2]
            limit == EffectiveLimit(DefaultQuery(limitQuery, <<"1", "0">>))
            offset == EffectiveOffset(DefaultQuery(offsetQuery, <<"0">>))
            found == RepoGetAllPayments(payments, limit, offset)
            input == [ limit |-> limitQuery, offset |-> offsetQuery ]
            select == << Step("GetAllPayments", query) >>
            asked == [ limit |-> limit, offset |-> offset ]
        IN  /\ UNCHANGED storeVars
            /\ IF query = "ok"
               THEN Serve([ Call("GetAllPayments", input, select, 200)
                              EXCEPT !.local = asked ], {},
                          { <<"payments", V("ids", found)>>,
                            <<"limit", V("int", limit)>>,
                            <<"offset", V("int", offset)>>,
                            <<"count", V("int", Len(found))>> }, {})
               ELSE Serve([ Call("GetAllPayments", input, select, 500)
                              EXCEPT !.local = asked ], {},
                          ErrorBody("Failed to retrieve payments"),
                          { LogLine("Failed to get payments: %v",
                                    <<V("err", "exec failed")>>) })

(***************************************************************************)
(* SpecService: the whole service.  API calls are served between the steps *)
(* of a webhook request; the webhook endpoint receives signed events and   *)
(* forged ones.                                                            *)
(***************************************************************************)
ServiceBodies == { BodySuccess, BodyFailed, BodyRefund, BodySettlement, BodyUnknown }

ReceiveService(r) ==
    /\ req[r].pc = "idle"
    /\ delivered < MaxServiceDeliveries
    /\ \E timestamp \in Timestamps \ {<<>>}, body \in ServiceBodies,
          secret \in {ClientSecret, OtherSecret} :
         req' = [req EXCEPT ![r] =
                   [IdleReq EXCEPT !.pc = "headers",
                                   !.signature = GatewaySign(secret, timestamp, body),
                                   !.timestamp = timestamp, !.body = body,
                                   !.delivery = delivered + 1,
                                   !.before = storeVars]]
    /\ delivered' = delivered + 1
    /\ UNCHANGED <<storeVars, logs, outbound, calls, vf>>

NextService ==
    \/ \E r \in Workers :
        \/ ReceiveService(r)
        \/ CheckHeaders(r)
        \/ ReadBody(r)
        \/ VerifySignature(r)
        \/ ParseBody(r)
        \/ LogWebhook(r)
        \/ handlePaymentSuccessWebhook(r)
        \/ handlePaymentFailedWebhook(r)
        \/ handleRefundStatusWebhook(r)
        \/ handleSettlementStatusWebhook(r)
        \/ UnknownWebhookType(r)
        \/ Respond(r)
        \/ Complete(r)
    \/ CreatePaymentSession
    \/ VerifyPayment
    \/ GetPaymentDetailsLookup
    \/ GetPaymentDetailsUpdate
    \/ RefundPayment
    \/ CancelPayment
    \/ CreateSplitSettlement
    \/ GetSettlementDetails
    \/ GetRefundDetails
    \/ GetAllPayments
    \/ Preflight

SpecService == Init /\ [][NextService]_vars

(***************************************************************************)
(* SpecVerify: the signature verifier on its own.  The gateway signs a     *)
(* delivery (secret, timestamp, payload); one byte of the signature, the   *)
(* timestamp or the payload may then be replaced on the way; the service,  *)
(* configured with the same secret, verifies what arrives.                 *)
(***************************************************************************)
ByteValues == {0, 1, 255}
ByteStrings == UNION { [1..n -> ByteValues] : n \in 0..MaxLen }
SignatureChars == {"A", "Q", "/", "="}

InitVerify ==
    /\ InitStore
    /\ logs = {}
    /\ outbound = {}
    /\ req = [r \in Workers |-> IdleReq]
    /\ delivered = 0
    /\ calls = <<>>
    /\ \E secret \in {ClientSecret, OtherSecret}, timestamp \in ByteStrings,
          payload \in ByteStrings :
         vf = [ pc |-> "signed", secret |-> secret, timestamp |-> timestamp,
                payload |-> payload,
                signature |-> GatewaySign(secret, timestamp, payload),
                mutated |-> "none", result |-> FALSE ]

MutateSignature ==
    /\ vf.pc = "signed" /\ vf.mutated = "none"
    /\ \E i \in DOMAIN vf.signature : \E c \in SignatureChars \ {vf.signature[i]} :
         vf' = [vf EXCEPT !.signature[i] = c, !.mutated = "signature"]
    /\ UNCHANGED <<storeVars, logs, outbound, req, delivered, calls>>

MutateTimestamp ==
    /\ vf.pc = "signed" /\ vf.mutated = "none"
    /\ \E i \in DOMAIN vf.timestamp : \E b \in ByteValues \ {vf.timestamp[i]} :
         vf' = [vf EXCEPT !.timestamp[i] = b, !.mutated = "timestamp"]
    /\ UNCHANGED <<storeVars, logs, outbound, req, delivered, calls>>

MutatePayload ==
    /\ vf.pc = "signed" /\ vf.mutated = "none"
    /\ \E i \in DOMAIN vf.payload : \E b \in ByteValues \ {vf.payload[i]} :
         vf' = [vf EXCEPT !.payload[i] = b, !.mutated = "payload"]
    /\ UNCHANGED <<storeVars, logs, outbound, req, delivered, calls>>

Verify ==
    /\ vf.pc = "signed"
    /\ vf' = [vf EXCEPT !.pc = "verified",
                        !.result = VerifyWebhookSignature(vf.secret, vf.signature,
                                                          vf.timestamp, vf.payload)]
    /\ UNCHANGED <<storeVars, logs, outbound, req, delivered, calls>>

NextVerify == MutateSignature \/ MutateTimestamp \/ MutatePayload \/ Verify

SpecVerify == InitVerify /\ [][NextVerify]_vars

(***************************************************************************)
(* Vocabulary of the properties.                                           *)
(***************************************************************************)
\* both webhook headers are present and non-empty
HeadersPresent(q) == q.signature /= <<>> /\ q.timestamp /= <<>>

\* the signature header is the gateway's signature of this timestamp and body
Genuine(q) == q.signature = GatewaySign(ClientSecret, q.timestamp, q.body)

\* the bodies that are not a JSON event
NotAnEvent == { BodyTruncated, BodyNumType, BodyStringData, <<>> }

\* a request whose body was read, whose signature verifies and whose body parses
Accepted(q) ==
    /\ q.pc /= "idle"
    /\ HeadersPresent(q) /\ ~q.readErr /\ Genuine(q)
    /\ q.body \notin NotAnEvent

Did(q, op) == \E i \in DOMAIN q.trace : q.trace[i].op = op
OutcomeOf(q, op) ==
    IF Did(q, op) THEN q.trace[CHOOSE i \in DOMAIN q.trace : q.trace[i].op = op].out
    ELSE "none"

\* the webhook log rows written for the request
LogRowsOf(q) == { i \in DOMAIN webhooks : webhooks[i].id = q.delivery }

Handlers ==
    { "handlePaymentSuccessWebhook", "handlePaymentFailedWebhook",
      "handleRefundStatusWebhook", "handleSettlementStatusWebhook" }
StoreUpdates == { "UpdatePaymentStatus", "UpdateRefundStatus" }

\* C1: a request with both headers whose signature does not verify is answered 401
\* and nothing else happens: the body is not parsed, no webhook log row is written
\* and the payments, refunds and webhooks tables are as they were when it arrived.
C1_BadSignatureRejected ==
    \A r \in Workers :
        LET q == req[r]
        IN  (q.pc /= "idle" /\ HeadersPresent(q) /\ ~q.readErr /\ ~Genuine(q)) =>
              /\ q.pc \in {"headers", "read", "verify", "done"}
              /\ q.pc = "done" =>
                    q.resp = [code |-> 401, body |-> "Invalid signature"]
              /\ ~Did(q, "Unmarshal")
              /\ ~Did(q, "CreateWebhookLog")
              /\ LogRowsOf(q) = {}
              /\ storeVars = q.before

\* a forged signature on a well-formed success event for o1 was answered 401
C1_Witness ==
    \E r \in Workers :
        /\ req[r].pc = "done"
        /\ req[r].body = BodySuccess
        /\ req[r].timestamp /= <<>>
        /\ req[r].signature = GatewaySign(OtherSecret, req[r].timestamp, BodySuccess)
        /\ req[r].resp.code = 401

\* C2: a request lacking the signature or the timestamp header is answered 400
\* whatever its body, before the body is read or the signature verified, and the
\* payments, refunds and webhooks tables are as they were when it arrived.
C2_MissingHeadersRejected ==
    \A r \in Workers :
        LET q == req[r]
        IN  (q.pc /= "idle" /\ ~HeadersPresent(q)) =>
              /\ q.pc \in {"headers", "done"}
              /\ q.pc = "done" =>
                    q.resp = [code |-> 400, body |-> "Missing webhook headers"]
              /\ ~Did(q, "ReadBody")
              /\ ~Did(q, "VerifyWebhookSignature")
              /\ LogRowsOf(q) = {}
              /\ storeVars = q.before

\* a success event for o1 signed by the gateway over an empty timestamp, sent
\* without the timestamp header, was answered 400
C2_Witness ==
    \E r \in Workers :
        /\ req[r].pc = "done"
        /\ req[r].body = BodySuccess
        /\ req[r].timestamp = <<>>
        /\ req[r].signature = GatewaySign(ClientSecret, <<>>, BodySuccess)
        /\ req[r].resp.code = 400

\* C3: a request whose signature verifies but whose body is not a JSON event is
\* answered 400; no webhook log row is written and no projection handler runs.
C3_UnparseableRejected ==
    \A r \in Workers :
        LET q == req[r]
        IN  (q.pc /= "idle" /\ HeadersPresent(q) /\ ~q.readErr /\ Genuine(q)
                /\ q.body \in NotAnEvent) =>
              /\ q.pc \in {"headers", "read", "verify", "parse", "done"}
              /\ q.pc = "done" =>
                    q.resp = [code |-> 400, body |-> "Invalid webhook data"]
              /\ ~Did(q, "CreateWebhookLog")
              /\ LogRowsOf(q) = {}
              /\ \A h \in Handlers \cup StoreUpdates : ~Did(q, h)
              /\ storeVars = q.before

\* a genuinely signed body whose type is a number was answered 400
C3_Witness ==
    \E r \in Workers :
        /\ req[r].pc = "done"
        /\ req[r].body = BodyNumType
        /\ HeadersPresent(req[r]) /\ Genuine(req[r])
        /\ Did(req[r], "Unmarshal")
        /\ req[r].resp.code = 400

\* C4: once the signature verified and the body parsed, the only answer is
\* 200 {"status":"success"}, whatever the event type and whatever the outcomes of
\* the log insert and of the status update.
C4_AlwaysSuccessAfterParse ==
    \A r \in Workers :
        LET q == req[r]
        IN  Accepted(q) =>
              /\ q.pc = "done" => q.resp = [code |-> 200, body |-> "success"]
              /\ q.pc /= "done" => q.resp = NoResponse

\* a delivery whose log insert timed out and whose status update failed was
\* answered 200
C4_Witness ==
    \E r \in Workers :
        /\ req[r].pc = "done"
        /\ Accepted(req[r])
        /\ Did(req[r], "CreateWebhookLog")
        /\ OutcomeOf(req[r], "CreateWebhookLog") = "timeout"
        /\ Did(req[r], "UpdatePaymentStatus")
        /\ OutcomeOf(req[r], "UpdatePaymentStatus") = "error"
        /\ req[r].resp.code = 200

\* C5: the verifier returns true for the gateway's signature of the same secret,
\* timestamp and body, and false when one byte of the signature, of the timestamp
\* or of the body has been replaced; it has a result in every case.
C5_VerifyRoundTrip ==
    vf.pc = "verified" =>
        /\ vf.result \in BOOLEAN
        /\ vf.result <=> (vf.mutated = "none")

\* a delivery whose timestamp had one byte replaced was verified and refused
C5_Witness ==
    /\ vf.pc = "verified"
    /\ vf.mutated = "timestamp"
    /\ vf.payload /= <<>>
    /\ ~vf.result

\* the handler the dispatcher is to run for each known event type
TypeHandler ==
    [ PAYMENT_SUCCESS_WEBHOOK   |-> "handlePaymentSuccessWebhook",
      PAYMENT_FAILED_WEBHOOK    |-> "handlePaymentFailedWebhook",
      REFUND_STATUS_WEBHOOK     |-> "handleRefundStatusWebhook",
      SETTLEMENT_STATUS_WEBHOOK |-> "handleSettlementStatusWebhook" ]

HandlerSteps(q) == { i \in DOMAIN q.trace : q.trace[i].op \in Handlers }
LogSteps(q) == { i \in DOMAIN q.trace : q.trace[i].op = "CreateWebhookLog" }
LogApplied(q) ==
    Did(q, "CreateWebhookLog") /\ OutcomeOf(q, "CreateWebhookLog") \in {"ok", "late"}
IsPrefix(s, t) == Len(s) <= Len(t) /\ SubSeq(t, 1, Len(s)) = s

\* C6 as stated: every request that passes signature verification and JSON
\* parsing has exactly one webhook log row once it is answered.
C6_ExactlyOneLogRow ==
    \A r \in Workers :
        LET q == req[r]
        IN  (Accepted(q) /\ q.pc = "done") => Cardinality(LogRowsOf(q)) = 1

\* C6 as amended: every such request attempts the log insert exactly once and
\* has at most one webhook log row: one when the insert was applied, none when
\* it failed; no delivery ever has more than one row.
C6_AtMostOneLogRow ==
    /\ \A d \in 1..delivered :
          Cardinality({ i \in DOMAIN webhooks : webhooks[i].id = d }) <= 1
    /\ \A r \in Workers :
          LET q == req[r]
          IN  (Accepted(q) /\ q.pc \in {"dispatch", "respond", "done"}) =>
                /\ Cardinality(LogSteps(q)) = 1
                /\ Cardinality(LogRowsOf(q)) = IF LogApplied(q) THEN 1 ELSE 0

\* the second delivery was answered and each of the two deliveries has its row
C6_Witness ==
    \E r \in Workers :
        /\ req[r].pc = "done"
        /\ Accepted(req[r])
        /\ req[r].delivery = 2
        /\ Len(webhooks) = 2
        /\ Cardinality(LogRowsOf(req[r])) = 1

\* C7: within a request the log insert is attempted before any handler runs and
\* before any payment or refund row changes, and dispatch never removes a row of
\* the webhook log: an applied insert stays, and the log only grows.
C7_LogBeforeDispatch ==
    \A r \in Workers :
        LET q == req[r]
        IN  q.pc /= "idle" =>
              /\ \A i \in DOMAIN q.trace :
                    q.trace[i].op \in Handlers \cup StoreUpdates \cup {"default"} =>
                        \E j \in 1..(i - 1) : q.trace[j].op = "CreateWebhookLog"
              /\ (payments /= q.before[1] \/ refunds /= q.before[2]) =>
                    Did(q, "CreateWebhookLog")
              /\ LogApplied(q) => LogRowsOf(q) /= {}
              /\ IsPrefix(q.before[3], webhooks)

\* a handler's update failed after the log row was written, and the row is there
C7_Witness ==
    \E r \in Workers :
        /\ req[r].pc = "respond"
        /\ Did(req[r], "UpdatePaymentStatus")
        /\ OutcomeOf(req[r], "UpdatePaymentStatus") = "error"
        /\ OutcomeOf(req[r], "CreateWebhookLog") = "ok"
        /\ LogRowsOf(req[r]) /= {}

\* C8: logging and projection do not depend on each other: when the projection
\* fails the request's log row stays, and when the log insert fails the handler
\* of the event type is run all the same.
C8_LogAndProjectionIndependent ==
    \A r \in Workers :
        LET q == req[r]
            type == q.webhookData.Type
        IN  (Accepted(q) /\ q.pc \in {"respond", "done"}) =>
              /\ ( /\ LogApplied(q)
                   /\ \E i \in DOMAIN q.trace :
                         q.trace[i].op \in StoreUpdates /\ q.trace[i].out /= "ok" )
                 => Cardinality(LogRowsOf(q)) = 1
              /\ (~LogApplied(q) /\ type \in DOMAIN TypeHandler) =>
                    Did(q, TypeHandler[type])
              /\ ( /\ OutcomeOf(q, "CreateWebhookLog") = "error"
                   /\ q.body \in {BodySuccess, BodyFailed} )
                 => Did(q, "UpdatePaymentStatus")

\* the log insert failed, no row was written, and the payment was set to SUCCESS
C8_Witness ==
    \E r \in Workers :
        /\ req[r].pc = "done"
        /\ req[r].body = BodySuccess
        /\ OutcomeOf(req[r], "CreateWebhookLog") = "error"
        /\ LogRowsOf(req[r]) = {}
        /\ OutcomeOf(req[r], "UpdatePaymentStatus") = "ok"
        /\ payments["o1"].status = "SUCCESS"
        /\ req[r].before[1]["o1"].status = "CREATED"

\* C9: for a parsed event exactly one handler runs, the one whose type string
\* equals the event's type; for any other type (empty or differently cased too)
\* no handler runs and the store changes by the log row at most.
C9_DispatchByExactType ==
    \A r \in Workers :
        LET q == req[r]
            type == q.webhookData.Type
        IN  (Accepted(q) /\ q.pc \in {"respond", "done"}) =>
              IF type \in DOMAIN TypeHandler
              THEN /\ Cardinality(HandlerSteps(q)) = 1
                   /\ Did(q, TypeHandler[type])
                   /\ ~Did(q, "default")
              ELSE /\ HandlerSteps(q) = {}
                   /\ \A u \in StoreUpdates : ~Did(q, u)
                   /\ payments = q.before[1]
                   /\ refunds = q.before[2]
                   /\ \/ webhooks = q.before[3]
                      \/ /\ Len(webhooks) = Len(q.before[3]) + 1
                         /\ IsPrefix(q.before[3], webhooks)
                         /\ webhooks[Len(webhooks)].id = q.delivery
                         /\ webhooks[Len(webhooks)].event_type = type

\* the lower-case type payment_success_webhook for o1 was logged and answered
\* 200 without a handler
C9_Witness ==
    \E r \in Workers :
        /\ req[r].pc = "done"
        /\ req[r].body = BodyLowerCase
        /\ Accepted(req[r])
        /\ LogRowsOf(req[r]) /= {}
        /\ HandlerSteps(req[r]) = {}
        /\ req[r].resp.code = 200

SuccessRow ==
    [ status |-> "SUCCESS", cf_payment_id |-> <<"p1">>, payment_method |-> <<"card">>,
      payment_time |-> <<1>> ]
SuccessLooseRow ==
    [ status |-> "SUCCESS", cf_payment_id |-> <<"">>, payment_method |-> <<"">>,
      payment_time |-> <<>> ]

\* C10 as stated: a verified PAYMENT_SUCCESS_WEBHOOK for the existing payment o1
\* with cf_payment_id p1, method card and time 2024-01-01T00:00:00Z is answered
\* 200, has one log row of that event type, and leaves o1 with status SUCCESS
\* and those three values.
C10_SuccessProjected ==
    \A r \in Workers :
        LET q == req[r]
        IN  (Accepted(q) /\ q.pc = "done" /\ q.body = BodySuccess) =>
              /\ q.resp.code = 200
              /\ Cardinality(LogRowsOf(q)) = 1
              /\ \A i \in LogRowsOf(q) : webhooks[i].event_type = "PAYMENT_SUCCESS_WEBHOOK"
              /\ payments["o1"] = SuccessRow

\* C10 as amended: such a request is answered 200 and calls the status update
\* once; when the log insert is applied there is one log row of that event type,
\* and when the update is applied o1 has status SUCCESS, cf_payment_id and
\* payment_method equal to the event's strings (the empty string where the event
\* has no string) and payment_time equal to the event's RFC 3339 time (null
\* where it has none that parses).
C10_SuccessProjectedWhenApplied ==
    \A r \in Workers :
        LET q == req[r]
        IN  ( /\ Accepted(q) /\ q.pc \in {"respond", "done"}
              /\ q.body \in {BodySuccess, BodySuccessLoose} ) =>
              /\ q.pc = "done" => q.resp.code = 200
              /\ Cardinality({ i \in DOMAIN q.trace :
                                  q.trace[i].op = "UpdatePaymentStatus" }) = 1
              /\ LogApplied(q) =>
                    /\ Cardinality(LogRowsOf(q)) = 1
                    /\ \A i \in LogRowsOf(q) :
                          /\ webhooks[i].event_type = "PAYMENT_SUCCESS_WEBHOOK"
                          /\ webhooks[i].order_id = <<"o1">>
              /\ OutcomeOf(q, "UpdatePaymentStatus") \in {"ok", "late"} =>
                    payments["o1"] = IF q.body = BodySuccess THEN SuccessRow
                                     ELSE SuccessLooseRow

\* the full success event for o1 was logged, applied and answered 200
C10_Witness ==
    \E r \in Workers :
        /\ req[r].pc = "done"
        /\ req[r].body = BodySuccess
        /\ req[r].resp.code = 200
        /\ Cardinality(LogRowsOf(req[r])) = 1
        /\ req[r].before[1]["o1"] = NewPayment
        /\ payments["o1"] = SuccessRow

(***************************************************************************)
(* The rows the projection handlers write.                                 *)
(***************************************************************************)
FailedRow ==
    [ status |-> "FAILED", cf_payment_id |-> Nil, payment_method |-> Nil,
      payment_time |-> Nil ]
SuccessNoTimeRow ==
    [ status |-> "SUCCESS", cf_payment_id |-> <<"p1">>, payment_method |-> <<"card">>,
      payment_time |-> Nil ]
RefundRow == [ order_id |-> "o1", status |-> "SUCCESS", processed_at |-> <<2>> ]
RefundNoTimeRow == [ order_id |-> "o1", status |-> "SUCCESS", processed_at |-> Nil ]

\* the request is answered, or about to be
Handled(q) == q.pc \in {"respond", "done"}
CallsOf(q, op) == { i \in DOMAIN q.trace : q.trace[i].op = op }
UpdateApplied(q, op) == OutcomeOf(q, op) \in {"ok", "late"}

\* every payment but o, and every refund but f, is as it was when q arrived
OtherPaymentsKept(q, o) ==
    /\ DOMAIN payments = DOMAIN q.before[1]
    /\ \A x \in DOMAIN payments \ {o} : payments[x] = q.before[1][x]
OtherRefundsKept(q, f) ==
    /\ DOMAIN refunds = DOMAIN q.before[2]
    /\ \A x \in DOMAIN refunds \ {f} : refunds[x] = q.before[2][x]

\* C11 as stated: a verified PAYMENT_FAILED_WEBHOOK for the existing payment o1
\* leaves o1 with status FAILED and with cf_payment_id, payment_method and
\* payment_time null, whatever they were before.
C11_FailedProjected ==
    \A r \in Workers :
        LET q == req[r]
        IN  (Accepted(q) /\ q.pc = "done" /\ q.body = BodyFailed) =>
              payments["o1"] = FailedRow

\* C11 as amended: such a request issues one status update for o1; when the
\* store applies it o1 has status FAILED and null cf_payment_id, payment_method
\* and payment_time whatever they were before, and when the update fails every
\* payment is as it was; no other payment and no refund changes either way.
C11_FailedProjectedWhenApplied ==
    \A r \in Workers :
        LET q == req[r]
        IN  (Accepted(q) /\ Handled(q) /\ q.body = BodyFailed) =>
              /\ Cardinality(CallsOf(q, "UpdatePaymentStatus")) = 1
              /\ UpdateApplied(q, "UpdatePaymentStatus") => payments["o1"] = FailedRow
              /\ ~UpdateApplied(q, "UpdatePaymentStatus") => payments = q.before[1]
              /\ OtherPaymentsKept(q, "o1")
              /\ refunds = q.before[2]

\* a payment that was SUCCESS with payment id, method and time was set to FAILED
\* with all three cleared
C11_Witness ==
    \E r \in Workers :
        /\ req[r].pc = "done"
        /\ req[r].body = BodyFailed
        /\ req[r].before[1]["o1"] = SuccessRow
        /\ payments["o1"] = FailedRow

\* C12 as stated: a verified REFUND_STATUS_WEBHOOK for the existing refund r1
\* with refund_status SUCCESS and processed_at 2024-01-02T00:00:00Z leaves r1
\* with that status and time, and changes no payment and no other refund.
C12_RefundProjected ==
    \A r \in Workers :
        LET q == req[r]
        IN  (Accepted(q) /\ q.pc = "done" /\ q.body = BodyRefund) =>
              /\ refunds["r1"] = RefundRow
              /\ OtherRefundsKept(q, "r1")
              /\ payments = q.before[1]

\* C12 as amended: such a request issues one refund update for r1; when the
\* store applies it r1 has the event's refund_status and processed_at, and when
\* the update fails r1 is as it was; no payment and no other refund changes
\* either way.
C12_RefundProjectedWhenApplied ==
    \A r \in Workers :
        LET q == req[r]
        IN  (Accepted(q) /\ Handled(q) /\ q.body = BodyRefund) =>
              /\ Cardinality(CallsOf(q, "UpdateRefundStatus")) = 1
              /\ UpdateApplied(q, "UpdateRefundStatus") => refunds["r1"] = RefundRow
              /\ ~UpdateApplied(q, "UpdateRefundStatus") => refunds = q.before[2]
              /\ OtherRefundsKept(q, "r1")
              /\ payments = q.before[1]

\* the pending refund r1 was set to SUCCESS with its processed time, while the
\* refund r2 and the payments stayed as they were
C12_Witness ==
    \E r \in Workers :
        /\ req[r].pc = "done"
        /\ req[r].body = BodyRefund
        /\ req[r].before[2]["r1"] = NewRefund
        /\ refunds["r1"] = RefundRow
        /\ refunds["r2"] = NewRefund
        /\ payments = req[r].before[1]

\* the events whose identifying field is absent or is not a string
NoIdentifier == { BodySuccessNoOrder, BodySuccessNumOrder, BodyRefundNoId, BodyNoData }

\* C14 as stated: for an event whose identifying field is absent or not a
\* string the handler returns without a store update, the response is 200 and
\* the request has its log row.
C14_MissingIdentifier ==
    \A r \in Workers :
        LET q == req[r]
        IN  (Accepted(q) /\ q.pc = "done" /\ q.body \in NoIdentifier) =>
              /\ q.resp = [code |-> 200, body |-> "success"]
              /\ \A u \in StoreUpdates : ~Did(q, u)
              /\ payments = q.before[1] /\ refunds = q.before[2]
              /\ Cardinality(LogRowsOf(q)) = 1

\* C14 as amended: for such an event the handler of the type is run and returns
\* without a store update, no payment or refund changes, the response is 200,
\* and the log insert was attempted first as for any event: the request has
\* its log row unless that insert failed.
C14_MissingIdentifierNoUpdate ==
    \A r \in Workers :
        LET q == req[r]
        IN  (Accepted(q) /\ Handled(q) /\ q.body \in NoIdentifier) =>
              /\ q.pc = "done" => q.resp = [code |-> 200, body |-> "success"]
              /\ Cardinality(HandlerSteps(q)) = 1
              /\ \A i \in HandlerSteps(q) : q.trace[i].out = "return"
              /\ \A u \in StoreUpdates : ~Did(q, u)
              /\ payments = q.before[1] /\ refunds = q.before[2]
              /\ Cardinality(LogSteps(q)) = 1
              /\ Cardinality(LogRowsOf(q)) = IF LogApplied(q) THEN 1 ELSE 0

\* a success event whose order_id is a number was logged and answered 200
\* without an update
C14_Witness ==
    \E r \in Workers :
        /\ req[r].pc = "done"
        /\ req[r].body = BodySuccessNumOrder
        /\ Accepted(req[r])
        /\ Did(req[r], "handlePaymentSuccessWebhook")
        /\ ~Did(req[r], "UpdatePaymentStatus")
        /\ Cardinality(LogRowsOf(req[r])) = 1
        /\ req[r].resp.code = 200

\* the row each event with an unusable optional timestamp is to leave
NoTimestampRow ==
    [ b \in { BodySuccessLoose, BodySuccessNumTime, BodySuccessNoTime } |->
        IF b = BodySuccessLoose THEN SuccessLooseRow ELSE SuccessNoTimeRow ]

\* C15 as stated: an event whose optional timestamp is absent, not a string or
\* not parseable has its projection applied with the other fields and a null
\* timestamp, and is answered 200.
C15_TimestampOptional ==
    \A r \in Workers :
        LET q == req[r]
        IN  (Accepted(q) /\ q.pc = "done") =>
              /\ q.body \in DOMAIN NoTimestampRow =>
                    /\ payments["o1"] = NoTimestampRow[q.body]
                    /\ q.resp.code = 200
              /\ q.body = BodyRefundLoose =>
                    /\ refunds["r1"] = RefundNoTimeRow
                    /\ q.resp.code = 200

\* C15 as amended: for such an event the update is still issued, once, with the
\* other fields and a null timestamp, and the response is 200; when the store
\* applies the update the stored timestamp is null and the other columns carry
\* the event's values.
C15_TimestampOptionalWhenApplied ==
    \A r \in Workers :
        LET q == req[r]
        IN  (Accepted(q) /\ Handled(q)) =>
              /\ q.body \in DOMAIN NoTimestampRow =>
                    /\ Cardinality(CallsOf(q, "UpdatePaymentStatus")) = 1
                    /\ UpdateApplied(q, "UpdatePaymentStatus") =>
                          payments["o1"] = NoTimestampRow[q.body]
                    /\ q.pc = "done" => q.resp.code = 200
              /\ q.body = BodyRefundLoose =>
                    /\ Cardinality(CallsOf(q, "UpdateRefundStatus")) = 1
                    /\ UpdateApplied(q, "UpdateRefundStatus") =>
                          refunds["r1"] = RefundNoTimeRow
                    /\ q.pc = "done" => q.resp.code = 200

\* a payment holding a payment time received a success event whose payment_time
\* does not parse, and now holds none
C15_Witness ==
    \E r \in Workers :
        /\ req[r].pc = "done"
        /\ req[r].body = BodySuccessLoose
        /\ req[r].before[1]["o1"].payment_time = <<1>>
        /\ payments["o1"] = SuccessLooseRow
        /\ req[r].resp.code = 200

\* C16: webhook processing creates no payment and no refund: the order ids and
\* refund ids in the store are those it started with, and an event naming an
\* order or a refund the store does not hold changes no payment, refund or
\* settlement row, even when its update statement is applied.
C16_NoRecordCreated ==
    /\ DOMAIN payments = {"o1", "o2"}
    /\ DOMAIN refunds = {"r1", "r2"}
    /\ \A r \in Workers :
          LET q == req[r]
          IN  /\ q.pc /= "idle" =>
                    /\ DOMAIN payments = DOMAIN q.before[1]
                    /\ DOMAIN refunds = DOMAIN q.before[2]
              /\ (Accepted(q) /\ q.body \in {BodySuccessUnknownOrder, BodyRefundUnknown}) =>
                    /\ payments = q.before[1]
                    /\ refunds = q.before[2]
                    /\ settlements = q.before[4]
                    /\ split_settlements = q.before[5]

\* the update for the unknown order o9 was applied by the store and answered,
\* and the payments are as before
C16_Witness ==
    \E r \in Workers :
        /\ req[r].pc = "done"
        /\ req[r].body = BodySuccessUnknownOrder
        /\ OutcomeOf(req[r], "UpdatePaymentStatus") = "ok"
        /\ payments = req[r].before[1]
        /\ DOMAIN payments = {"o1", "o2"}

(***************************************************************************)
(* SpecConcurrent: two deliveries served at the same time.  net/http runs  *)
(* every request in a goroutine of its own, so the steps of the two        *)
(* handlers interleave freely; each statement sent to the store is one     *)
(* step.  The gateway sends genuinely signed payment events for o1.        *)
(***************************************************************************)
Goroutines == {1, 2}

ConcurrentBodies == { BodySuccess, BodySuccessLoose, BodyFailed }

InitConcurrent ==
    /\ InitStore
    /\ logs = {}
    /\ outbound = {}
    /\ req = [r \in Goroutines |-> IdleReq]
    /\ delivered = 0
    /\ calls = <<>>
    /\ vf = VfIdle

\* the gateway posts a signed event
ReceiveVerified(r) ==
    /\ req[r].pc = "idle"
    /\ delivered < MaxDeliveries
    /\ \E timestamp \in Timestamps \ {<<>>}, body \in ConcurrentBodies :
         req' = [req EXCEPT ![r] =
                   [IdleReq EXCEPT !.pc = "headers",
                                   !.signature = GatewaySign(ClientSecret, timestamp, body),
                                   !.timestamp = timestamp, !.body = body,
                                   !.delivery = delivered + 1,
                                   !.before = storeVars]]
    /\ delivered' = delivered + 1
    /\ UNCHANGED <<storeVars, logs, outbound, calls, vf>>

NextConcurrent ==
    \E r \in Goroutines :
        \/ ReceiveVerified(r)
        \/ CheckHeaders(r)
        \/ ReadBody(r)
        \/ VerifySignature(r)
        \/ ParseBody(r)
        \/ LogWebhook(r)
        \/ handlePaymentSuccessWebhook(r)
        \/ handlePaymentFailedWebhook(r)
        \/ Respond(r)

SpecConcurrent == InitConcurrent /\ [][NextConcurrent]_vars

\* the row a delivery writes to the payment it names
WrittenRow ==
    [ b \in ConcurrentBodies |->
        IF b = BodySuccess THEN SuccessRow
        ELSE IF b = BodySuccessLoose THEN SuccessLooseRow
        ELSE FailedRow ]

BothAnswered == \A r \in Goroutines : req[r].pc = "done" /\ Accepted(req[r])

\* the rows the applied updates of the deliveries so far wrote, and the row o1
\* had before any of them
RowsWritten ==
    { WrittenRow[req[r].body] :
        r \in { x \in Goroutines : UpdateApplied(req[x], "UpdatePaymentStatus") } }

\* C17 as stated: when the same verified event was delivered twice there are
\* two webhook log rows carrying it, and the payment is in the state one
\* delivery of the event leaves.
C17_RedeliveryIdempotent ==
    (BothAnswered /\ req[1].body = req[2].body) =>
        /\ Cardinality({ i \in DOMAIN webhooks : webhooks[i].payload = Jsonb(req[1].body) }) = 2
        /\ payments["o1"] = WrittenRow[req[1].body]

\* C17 as amended: when the same verified event was delivered twice, each
\* delivery attempted its own log insert and has its own row exactly when that
\* insert was applied (two rows with the same payload when both were: nothing
\* deduplicates), and the payment is in the state one applied delivery leaves
\* as soon as the update of either delivery was applied, and untouched
\* otherwise.
C17_RedeliveryIdempotentWhenApplied ==
    (BothAnswered /\ req[1].body = req[2].body) =>
        /\ \A r \in Goroutines :
              /\ Cardinality(LogSteps(req[r])) = 1
              /\ Cardinality(LogRowsOf(req[r])) = IF LogApplied(req[r]) THEN 1 ELSE 0
              /\ \A i \in LogRowsOf(req[r]) : webhooks[i].payload = Jsonb(req[r].body)
        /\ Len(webhooks) = Cardinality({ r \in Goroutines : LogApplied(req[r]) })
        /\ payments["o1"] = IF RowsWritten = {} THEN NewPayment
                            ELSE WrittenRow[req[1].body]
        /\ payments["o2"] = NewPayment

\* the full success event was delivered twice: two rows carry the same payload
\* and o1 is as one delivery leaves it
C17_Witness ==
    /\ BothAnswered
    /\ req[1].body = BodySuccess /\ req[2].body = BodySuccess
    /\ Len(webhooks) = 2
    /\ webhooks[1].payload = webhooks[2].payload
    /\ webhooks[1].id /= webhooks[2].id
    /\ \A r \in Goroutines : OutcomeOf(req[r], "UpdatePaymentStatus") = "ok"
    /\ payments["o1"] = SuccessRow

\* C20 as stated: when two verified webhooks for o1 were served concurrently,
\* both log rows exist and o1 carries the status, cf_payment_id, payment_method
\* and payment_time written by one of the two deliveries.
C20_ConcurrentDeliveries ==
    BothAnswered =>
        /\ \A r \in Goroutines : Cardinality(LogRowsOf(req[r])) = 1
        /\ payments["o1"] \in { WrittenRow[req[r].body] : r \in Goroutines }

\* the row of o1 is, as a whole, the row written by one delivery whose update
\* was applied, or the row it had when no update was applied; and each delivery
\* has its log row exactly when its insert was applied
WholeRows ==
    /\ payments["o1"] \in (IF RowsWritten = {} THEN {NewPayment} ELSE RowsWritten)
    /\ payments["o2"] = NewPayment
    /\ \A r \in Goroutines :
          (req[r].pc \in {"dispatch", "respond", "done"}) =>
              Cardinality(LogRowsOf(req[r])) = IF LogApplied(req[r]) THEN 1 ELSE 0
    /\ \A r \in Goroutines : \A i \in LogRowsOf(req[r]) :
          webhooks[i].event_type = req[r].webhookData.Type
    /\ (\A r \in Goroutines : req[r].pc = "done") =>
          /\ \A r \in Goroutines : req[r].resp = [code |-> 200, body |-> "success"]
          /\ Len(webhooks) = Cardinality({ r \in Goroutines : LogApplied(req[r]) })

\* a step of one delivery leaves the request state of the other as it is
NoSharedRequestState ==
    \A r \in Goroutines :
        req'[r] /= req[r] => \A x \in Goroutines \ {r} : req'[x] = req[x]

\* C20 as amended: in every interleaving of two verified webhooks for o1 a step
\* of one delivery changes nothing of the other's request state; each delivery
\* has its log row exactly when its insert was applied; and the row of o1 is at
\* every moment, as a whole, the row written by one delivery whose update was
\* applied, or the row it had when no update was applied: never a mixture of
\* two deliveries' values.
C20_ConcurrentDeliveriesWhenApplied ==
    [][NoSharedRequestState /\ WholeRows /\ WholeRows']_vars

\* a success and a failed event for o1 were served together, both updates were
\* applied while the other request was in progress, and o1 is the success row
C20_Witness ==
    /\ BothAnswered
    /\ req[1].body = BodySuccess /\ req[2].body = BodyFailed
    /\ req[1].before[3] = <<>> /\ req[2].before[3] = <<>>
    /\ \A r \in Goroutines : OutcomeOf(req[r], "UpdatePaymentStatus") = "ok"
    /\ \A r \in Goroutines : Cardinality(LogRowsOf(req[r])) = 1
    /\ payments["o1"] = SuccessRow

(***************************************************************************)
(* Properties of the whole service, checked under SpecService.             *)
(***************************************************************************)
\* the step is one of the webhook request r is serving
WebhookStep(r) == req[r].pc /= "idle" /\ req'[r] /= req[r]

\* rows grew by one row, the last one, and every earlier row is as it was
Appended(rows, rows2) == Len(rows2) = Len(rows) + 1 /\ IsPrefix(rows, rows2)

\* C13: a SETTLEMENT_STATUS_WEBHOOK event is recorded for audit only: no step of
\* its request creates or changes a payment, a refund, a settlement or a split
\* settlement; the one row a step may add is the event's webhook log row.
C13_SettlementAuditOnly ==
    [][\A r \in Workers :
         (WebhookStep(r) /\ req[r].body = BodySettlement) =>
            /\ payments' = payments
            /\ refunds' = refunds
            /\ settlements' = settlements
            /\ split_settlements' = split_settlements
            /\ \/ webhooks' = webhooks
               \/ /\ req[r].pc = "log"
                  /\ Appended(webhooks, webhooks')
                  /\ webhooks'[Len(webhooks')].id = req[r].delivery
                  /\ webhooks'[Len(webhooks')].event_type = "SETTLEMENT_STATUS_WEBHOOK"]_vars

\* a verified settlement event was logged, handled and answered while the store
\* holds a split settlement of the order
C13_Witness ==
    \E r \in Workers :
        /\ req[r].pc = "done"
        /\ req[r].body = BodySettlement
        /\ Genuine(req[r])
        /\ Did(req[r], "handleSettlementStatusWebhook")
        /\ req[r].resp = [code |-> StatusOK, body |-> "success"]
        /\ Cardinality(LogRowsOf(req[r])) = 1
        /\ \E line \in logs : line.text = "Settlement webhook received: %+v"
        /\ split_settlements /= <<>>

\* C18: the webhook log is append-only: no step of the service, of a webhook
\* request or of an API call, changes a field of a row the log holds or removes
\* the row; the log only grows at its end.
C18_WebhookLogAppendOnly == [][IsPrefix(webhooks, webhooks')]_vars

\* a webhook was logged and answered, and an API call has stored a refund
C18_Witness ==
    /\ Len(webhooks) >= 1
    /\ \E r \in Workers : req[r].pc = "done" /\ Cardinality(LogRowsOf(req[r])) = 1
    /\ Len(calls) >= 1
    /\ "r3" \in DOMAIN refunds

\* the value is the client secret
IsSecret(x) == x.k = "bytes" /\ x.v = ClientSecret

\* the headers and the body fields of a message that carry the client secret
SecretHeaders(m) == { h \in DOMAIN m.headers : IsSecret(m.headers[h]) }
SecretFields(m) == { f \in m.body : IsSecret(f[2]) }
SecretLogged(line) == \E i \in DOMAIN line.args : IsSecret(line.args[i])

\* C19 as stated: the client secret is only the HMAC key of webhook
\* verification: no message the service sends carries it and no log line does.
C19_SecretNeverSent ==
    /\ \A m \in outbound : SecretHeaders(m) = {} /\ SecretFields(m) = {}
    /\ \A line \in logs : ~SecretLogged(line)

\* C19, amended: besides keying the HMAC of webhook verification, the client
\* secret is sent to the gateway, as the X-Client-Secret header of every request
\* of the gateway client, and nowhere else: no body of a request, no response to
\* a caller and no log line carries it.
C19_SecretOnlyToGateway ==
    /\ \A m \in outbound :
          /\ SecretFields(m) = {}
          /\ SecretHeaders(m) = IF m.to = "gateway" THEN {"X-Client-Secret"} ELSE {}
    /\ \A line \in logs : ~SecretLogged(line)

\* a forged webhook was refused with the secret as HMAC key, and an API call sent
\* a request to the gateway, answered its caller and logged the gateway's error
C19_Witness ==
    /\ \E r \in Workers :
          /\ req[r].pc = "done"
          /\ ~Genuine(req[r])
          /\ req[r].resp.code = StatusUnauthorized
    /\ LogLine("Invalid webhook signature", <<>>) \in logs
    /\ \E m \in outbound : m.to = "gateway" /\ "X-Client-Secret" \in SecretHeaders(m)
    /\ \E m \in outbound : m.to = "client" /\ m.code = 500
    /\ \E line \in logs : \E res \in GatewayResults : line.args = <<ClientErr(res)>>

(***************************************************************************)
(* The webhook log record, checked under Spec.                             *)
(***************************************************************************)
\* C21: the webhook log row written for a request has the event's type as
\* event_type, the received body text, unchanged, as payload, "RECEIVED" as
\* status, and as order_id data.order_id when that is a string and null
\* otherwise, for events of every type.
C21_LogRecordFields ==
    \A r \in Workers : \A i \in LogRowsOf(req[r]) :
        LET event == Unmarshal(req[r].body)
        IN  /\ webhooks[i].event_type = event.Type
            /\ webhooks[i].payload = req[r].body
            /\ webhooks[i].status = "RECEIVED"
            /\ webhooks[i].order_id =
                 IF IsString(event.Data, "order_id")
                 THEN Some(AsString(event.Data, "order_id")) ELSE Nil

(***************************************************************************)
(* The API handlers, checked under SpecService.                            *)
(***************************************************************************)
CallsOfHandler(handler) == { i \in DOMAIN calls : calls[i].handler = handler }

\* a text that is written as an integer, and the integer (10^9 for more)
Unsigned(text) == IF text /= <<>> /\ Head(text) \in { "+", "-" } THEN Tail(text) ELSE text
IsIntegerText(text) ==
    Unsigned(text) /= <<>> /\ \A i \in DOMAIN Unsigned(text) : IsDigit(Unsigned(text)[i])
IntegerOf(text) ==
    IF text /= <<>> /\ Head(text) = "-" THEN 0 - Magnitude(Unsigned(text))
    ELSE Magnitude(Unsigned(text))
FitsInt(text) == FitsInt64(Unsigned(text), text /= <<>> /\ Head(text) = "-")

\* the limit and offset texts of a call, with the defaults for absent ones
LimitText(call) == IF call.input.limit = Nil THEN <<"1", "0">> ELSE call.input.limit[1]
OffsetText(call) == IF call.input.offset = Nil THEN <<"0">> ELSE call.input.offset[1]

\* the store was asked with a limit in 1..100 and an offset >= 0, and the 200
\* response reports both and the number of payments it returns
ListedWithinBounds(call) ==
    /\ call.local.limit \in 1..100
    /\ call.local.offset >= 0
    /\ call.code = 200 =>
          \E m \in outbound : \E ids \in { RepoGetAllPayments(call.before[1],
                                              call.local.limit, call.local.offset) } :
              /\ m.to = "client" /\ m.code = 200
              /\ Len(ids) <= call.local.limit
              /\ m.body = { <<"payments", V("ids", ids)>>,
                            <<"limit", V("int", call.local.limit)>>,
                            <<"offset", V("int", call.local.offset)>>,
                            <<"count", V("int", Len(ids))>> }

\* C22 as stated: GetAllPayments asks the store with a limit in 1..100 and an
\* offset >= 0 whatever the query values are: a limit that is not an integer or
\* is <= 0 becomes 10, a limit above 100 becomes 100, an offset that is not an
\* integer or is negative becomes 0, any other value is used as it is; the
\* response reports the limit and offset used and the number of payments returned.
C22_PaginationClamped ==
    \A i \in CallsOfHandler("GetAllPayments") :
        LET call == calls[i]
            limit == LimitText(call)
            offset == OffsetText(call)
        IN  /\ ListedWithinBounds(call)
            /\ call.local.limit =
                 IF ~IsIntegerText(limit) \/ IntegerOf(limit) <= 0 THEN 10
                 ELSE IF IntegerOf(limit) > 100 THEN 100 ELSE IntegerOf(limit)
            /\ call.local.offset =
                 IF ~IsIntegerText(offset) \/ IntegerOf(offset) < 0 THEN 0
                 ELSE IntegerOf(offset)

\* C22 as amended: the same, where an integer that does not fit the 64 bit int
\* counts as not an integer: such a limit becomes 10, not 100, and such an
\* offset becomes 0.
C22_PaginationClampedInt64 ==
    \A i \in CallsOfHandler("GetAllPayments") :
        LET call == calls[i]
            limit == LimitText(call)
            offset == OffsetText(call)
        IN  /\ ListedWithinBounds(call)
            /\ call.local.limit =
                 IF ~IsIntegerText(limit) \/ ~FitsInt(limit) \/ IntegerOf(limit) <= 0
                 THEN 10
                 ELSE IF IntegerOf(limit) > 100 THEN 100 ELSE IntegerOf(limit)
            /\ call.local.offset =
                 IF ~IsIntegerText(offset) \/ ~FitsInt(offset) \/ IntegerOf(offset) < 0
                 THEN 0
                 ELSE IntegerOf(offset)

\* limit=101 was asked for: the store was asked for 100 rows, and the response
\* reports the two payments there are
C22_Witness ==
    \E i \in CallsOfHandler("GetAllPayments") :
        /\ calls[i].input.limit = Some(<<"1", "0", "1">>)
        /\ calls[i].local = [ limit |-> 100, offset |-> 0 ]
        /\ calls[i].code = 200
        /\ \E m \in outbound : <<"count", V("int", 2)>> \in m.body

\* the response carries the two headers with their values
AllowsAnyOrigin(m) ==
    /\ m.headers["Access-Control-Allow-Origin"] = V("str", "*")
    /\ m.headers["Access-Control-Allow-Credentials"] = V("str", "true")

\* C23: every response carries Access-Control-Allow-Origin "*" and
\* Access-Control-Allow-Credentials "true"; an OPTIONS request is answered 204
\* and no handler runs for it (no step is taken, the store is as it was); a
\* request with another method is served by the handler of its route.
C23_CORS ==
    /\ \A m \in outbound : m.to = "client" => AllowsAnyOrigin(m)
    /\ \A i \in DOMAIN calls :
          IF calls[i].method = "OPTIONS"
          THEN /\ calls[i].code = 204
               /\ calls[i].handler = "CORSMiddleware"
               /\ calls[i].trace = <<>>
               /\ \E m \in outbound : m.to = "client" /\ m.code = 204 /\ m.body = {}
          ELSE /\ <<calls[i].method, calls[i].handler>> \in Routes
               /\ calls[i].code /= 204

\* an OPTIONS request for the webhook route was answered 204 with the headers,
\* and nothing was stored or logged for it
C23_Witness ==
    /\ \E i \in DOMAIN calls :
          /\ calls[i].method = "OPTIONS"
          /\ calls[i].input = "HandleWebhook"
          /\ storeVars = calls[i].before
    /\ \E m \in outbound : m.code = 204 /\ AllowsAnyOrigin(m)
    /\ logs = {}

(***************************************************************************)
(* The order of projections, checked under Spec.                           *)
(***************************************************************************)
\* the row a payment event writes: all four columns, from the event alone
ProjectionOf(event) ==
    IF event.Type = "PAYMENT_FAILED_WEBHOOK"
    THEN [ status |-> "FAILED", cf_payment_id |-> Nil, payment_method |-> Nil,
           payment_time |-> Nil ]
    ELSE [ status |-> "SUCCESS",
           cf_payment_id |-> Some(AsString(event.Data, "cf_payment_id")),
           payment_method |-> Some(AsString(event.Data, "payment_method")),
           payment_time |-> IF IsString(event.Data, "payment_time")
                               /\ TimeParseOK(AsString(event.Data, "payment_time"))
                            THEN Some(TimeParse(AsString(event.Data, "payment_time")))
                            ELSE Nil ]

\* the step in which the projection of r's payment event is applied to a row
ProjectionApplied(r) ==
    /\ req[r].pc = "dispatch"
    /\ req[r].webhookData.Type \in { "PAYMENT_SUCCESS_WEBHOOK", "PAYMENT_FAILED_WEBHOOK" }
    /\ AsString(req[r].webhookData.Data, "order_id") \in DOMAIN payments
    /\ req'[r].pc = "respond"
    /\ req'[r].trace[Len(req'[r].trace)] \in
          { Step("UpdatePaymentStatus", "ok"), Step("UpdatePaymentStatus", "late") }

\* C24: no payment status is final and the last applied update wins: whatever
\* the row of the order holds, a step that applies the projection of a payment
\* event leaves in it exactly the status, cf_payment_id, payment_method and
\* payment_time of that event (FAILED with the three fields null for a
\* PAYMENT_FAILED_WEBHOOK, also after a PAYMENT_SUCCESS_WEBHOOK), and leaves
\* every other payment as it was.
C24_LastAppliedWins ==
    [][\A r \in Workers :
         ProjectionApplied(r) =>
            \A o \in DOMAIN payments :
                payments'[o] =
                    IF o = AsString(req[r].webhookData.Data, "order_id")
                    THEN ProjectionOf(req[r].webhookData)
                    ELSE payments[o]]_vars

\* a PAYMENT_FAILED_WEBHOOK for o1 was applied after a PAYMENT_SUCCESS_WEBHOOK
\* for o1 had been: the row is FAILED with the payment id, method and time null
C24_Witness ==
    /\ Len(webhooks) = 2
    /\ webhooks[1].event_type = "PAYMENT_SUCCESS_WEBHOOK"
    /\ webhooks[2].event_type = "PAYMENT_FAILED_WEBHOOK"
    /\ \E r \in Workers :
          /\ req[r].pc = "done"
          /\ req[r].body = BodyFailed
          /\ OutcomeOf(req[r], "UpdatePaymentStatus") \in {"ok", "late"}
          /\ req[r].before[1]["o1"] =
                [ status |-> "SUCCESS", cf_payment_id |-> <<"p1">>,
                  payment_method |-> <<"card">>, payment_time |-> <<1>> ]
    /\ payments["o1"] = [ status |-> "FAILED", cf_payment_id |-> Nil,
                          payment_method |-> Nil, payment_time |-> Nil ]

(***************************************************************************)
(* GetPaymentDetails beside a webhook, checked under SpecService.          *)
(***************************************************************************)
\* the step in which call i of GetPaymentDetails writes the row of its order
DetailsWritten(i) ==
    /\ calls[i].handler = "GetPaymentDetails"
    /\ calls[i].pc = "update"
    /\ calls'[i].pc = "done"
    /\ calls'[i].trace[Len(calls'[i].trace)] \in
          { Step("UpdatePaymentStatus", "ok"), Step("UpdatePaymentStatus", "late") }

\* C25: GetPaymentDetails changes only the stored status: when it writes, the
\* cf_payment_id, payment_method and payment_time of the payment are afterwards
\* what they were in the store immediately before the write, also when a
\* webhook for the order was served since the handler read the payment.
C25_DetailsKeepsPaymentFields ==
    [][\A i \in DOMAIN calls :
         DetailsWritten(i) =>
            LET o == calls[i].input.orderID
            IN  /\ payments'[o].cf_payment_id = payments[o].cf_payment_id
                /\ payments'[o].payment_method = payments[o].payment_method
                /\ payments'[o].payment_time = payments[o].payment_time]_vars

(***************************************************************************)
(* RefundPayment, VerifyPayment, CreateSplitSettlement and CancelPayment,  *)
(* checked under SpecService.                                              *)
(***************************************************************************)
\* the outcome of step op of a call ("none" when the call did not take it)
CallOutcome(call, op) ==
    IF \E j \in DOMAIN call.trace : call.trace[j].op = op
    THEN call.trace[CHOOSE j \in DOMAIN call.trace : call.trace[j].op = op].out
    ELSE "none"

\* the responses with the code and the body
Answered(code, body) ==
    \E m \in outbound : m.to = "client" /\ m.code = code /\ m.body = body

\* C26: RefundPayment answers 200 with the gateway's refund whenever the refund
\* was created at the gateway: neither a failed lookup of the payment nor a
\* failed insert of the refund record makes the answer an error; and a 200
\* answer implies that the payment was in the store.
C26_RefundAnswered ==
    \A i \in CallsOfHandler("RefundPayment") :
        LET call == calls[i]
        IN  /\ CallOutcome(call, "RefundPayment") = "ok" =>
                  /\ call.code = 200
                  /\ Answered(200, { <<"refund_id", V("str", call.input.refundID)>>,
                                     <<"order_id", V("str", call.input.orderID)>>,
                                     <<"refund_status", V("str", "PENDING")>> })
            /\ call.code = 200 => call.input.orderID \in DOMAIN call.before[1]

(***************************************************************************)
(* A refund status event without a usable refund_status, checked under     *)
(* Spec.                                                                   *)
(***************************************************************************)
\* the refund events for r1 whose refund_status is absent or is not a string
NoRefundStatus == { BodyRefundNoStatus, BodyRefundNumStatus }

\* the row such an event writes: an empty status, and the event's processed_at
\* (BodyRefundNumStatus carries 2024-01-02T00:00:00Z, BodyRefundNoStatus none)
EmptyStatusRow(body) ==
    [ order_id |-> "o1", status |-> "",
      processed_at |-> IF body = BodyRefundNumStatus THEN <<2>> ELSE Nil ]

\* C27 as stated: a verified REFUND_STATUS_WEBHOOK with a string refund_id
\* whose refund_status is absent or not a string leaves the existing refund
\* with the empty string as status and with the parsed processed_at or null.
C27_EmptyStatusOverwrites ==
    \A r \in Workers :
        LET q == req[r]
        IN  (Accepted(q) /\ q.pc = "done" /\ q.body \in NoRefundStatus) =>
              refunds["r1"] = EmptyStatusRow(q.body)

\* C27 as amended: such a request still issues one refund update for r1; when
\* the store applies it r1 has the empty string as status and the parsed
\* processed_at or null, and when the update fails every refund is as it was.
C27_EmptyStatusOverwritesWhenApplied ==
    \A r \in Workers :
        LET q == req[r]
        IN  (Accepted(q) /\ Handled(q) /\ q.body \in NoRefundStatus) =>
              /\ Cardinality(CallsOf(q, "UpdateRefundStatus")) = 1
              /\ UpdateApplied(q, "UpdateRefundStatus") =>
                    refunds["r1"] = EmptyStatusRow(q.body)
              /\ ~UpdateApplied(q, "UpdateRefundStatus") => refunds = q.before[2]
              /\ OtherRefundsKept(q, "r1")

\* the refund r1, SUCCESS with a processed time, got the empty status from an
\* event whose refund_status is a number
C27_Witness ==
    \E r \in Workers :
        /\ req[r].pc = "done"
        /\ req[r].body = BodyRefundNumStatus
        /\ req[r].before[2]["r1"].status = "SUCCESS"
        /\ refunds["r1"] = EmptyStatusRow(BodyRefundNumStatus)

(***************************************************************************)
(* VerifyPayment, checked under SpecService.                               *)
(***************************************************************************)
\* the calls of the handler served in this step
ServedNow(handler) ==
    { i \in DOMAIN calls' : i \notin DOMAIN calls /\ calls'[i].handler = handler }

\* the row VerifyPayment writes for the gateway's order status: the gateway's
\* payment id, method and time for "PAID", nulls for every other status
VerifiedRow(status) ==
    IF status = "PAID"
    THEN [ status |-> "PAID", cf_payment_id |-> <<"p2">>,
           payment_method |-> <<"upi">>, payment_time |-> <<3>> ]
    ELSE [ status |-> status, cf_payment_id |-> Nil,
           payment_method |-> Nil, payment_time |-> Nil ]

\* C28 as stated: after a VerifyPayment call that got the order status from
\* the gateway, the payment of the order has that status, with the gateway's
\* payment id, method and time when the status is "PAID" and nulls otherwise;
\* and a call whose local update failed is answered 200.
C28_VerifyProjects ==
    [][\A i \in ServedNow("VerifyPayment") :
         LET call == calls'[i]
             o == call.input.orderID
         IN  /\ (CallOutcome(call, "GetOrderStatus") = "ok" /\ o \in DOMAIN payments) =>
                    payments'[o] = VerifiedRow(call.input.status)
             /\ CallOutcome(call, "UpdatePaymentStatus") \in {"error", "timeout"} =>
                    call.code = 200]_vars

\* C28 as amended: a VerifyPayment call that got the order status from the
\* gateway is answered 500, with no payment changed, when the status is "PAID"
\* and the payment details could not be fetched; otherwise it issues one
\* status update and is answered 200 whatever the update's outcome.  When the
\* store applies the update and holds a payment of the order, that payment has
\* the gateway's status, with the gateway's payment id, method and time for
\* "PAID" and nulls otherwise, and no other payment changes; when the update
\* fails, or the store holds no payment of the order, no payment changes.
C28_VerifyProjectsWhenApplied ==
    [][\A i \in ServedNow("VerifyPayment") :
         LET call == calls'[i]
             o == call.input.orderID
             paid == call.input.status = "PAID"
             update == CallOutcome(call, "UpdatePaymentStatus")
         IN  CallOutcome(call, "GetOrderStatus") = "ok" =>
               IF paid /\ CallOutcome(call, "GetPayments") /= "ok"
               THEN call.code = 500 /\ update = "none" /\ payments' = payments
               ELSE /\ call.code = 200
                    /\ update /= "none"
                    /\ paid <=> CallOutcome(call, "GetPayments") = "ok"
                    /\ IF update \in {"ok", "late"} /\ o \in DOMAIN payments
                       THEN /\ payments'[o] = VerifiedRow(call.input.status)
                            /\ DOMAIN payments' = DOMAIN payments
                            /\ \A x \in DOMAIN payments \ {o} : payments'[x] = payments[x]
                       ELSE payments' = payments]_vars

\* a payment that a webhook had set to SUCCESS was verified while the gateway
\* reported the order ACTIVE, and now is ACTIVE with null payment id, method
\* and time
C28_Witness ==
    \E i \in CallsOfHandler("VerifyPayment") :
        /\ calls[i].code = 200
        /\ calls[i].input = [ orderID |-> "o1", status |-> "ACTIVE" ]
        /\ CallOutcome(calls[i], "UpdatePaymentStatus") = "ok"
        /\ calls[i].before[1]["o1"].status = "SUCCESS"
        /\ payments["o1"] = VerifiedRow("ACTIVE")

(***************************************************************************)
(* CreateSplitSettlement, checked under SpecService.                       *)
(***************************************************************************)
\* a record for every split of the call, in the order of the request
AllSplitRows(call) ==
    [ i \in DOMAIN call.input.splits |->
        SplitRow(call.input.orderID, call.input.splits[i]) ]

\* C29: a CreateSplitSettlement call whose gateway call succeeded is answered
\* 200, and it adds to split_settlements either a record for every split of
\* the request or nothing: every record when the transaction committed, and
\* nothing when Begin, an insert or the commit failed.  A call that did not
\* reach the gateway, or whose gateway call failed, stores nothing.
C29_SplitsAtomic ==
    [][\A i \in ServedNow("CreateSplitSettlement") :
         LET call == calls'[i]
             out == CallOutcome(call, "CreateSplitSettlement")
         IN  IF CallOutcome(call, "CreateSettlement") = "ok"
             THEN /\ call.code = 200
                  /\ \/ split_settlements' = split_settlements \o AllSplitRows(call)
                     \/ split_settlements' = split_settlements
                  /\ out = "ok" => split_settlements' = split_settlements \o AllSplitRows(call)
                  /\ out \in {"error", "timeout"} => split_settlements' = split_settlements
             ELSE /\ out = "none"
                  /\ split_settlements' = split_settlements]_vars

\* a request of two splits whose second insert the store rejected was answered
\* 200 and left no record, not even that of the first split
C29_Witness ==
    \E i \in CallsOfHandler("CreateSplitSettlement") :
        /\ calls[i].code = 200
        /\ calls[i].input.splits = <<SplitByAmount, SplitUntyped>>
        /\ CallOutcome(calls[i], "CreateSplitSettlement") = "error"
        /\ split_settlements = <<>>

(***************************************************************************)
(* CancelPayment, checked under SpecService.                               *)
(***************************************************************************)
CancelledRow ==
    [ status |-> "CANCELLED", cf_payment_id |-> Nil, payment_method |-> Nil,
      payment_time |-> Nil ]

\* C30: a CancelPayment call whose gateway call failed is answered 500 and
\* changes no payment, and issues no update; a call whose gateway call
\* succeeded is answered 200 whatever the outcome of the local update, and the
\* only change it makes is to leave the payment of the order CANCELLED with
\* null cf_payment_id, payment_method and payment_time, which it does when the
\* store applies the update.
C30_CancelAfterGateway ==
    [][\A i \in ServedNow("CancelPayment") :
         LET call == calls'[i]
             o == call.input
             update == CallOutcome(call, "UpdatePaymentStatus")
         IN  IF CallOutcome(call, "CancelOrder") /= "ok"
             THEN call.code = 500 /\ update = "none" /\ payments' = payments
             ELSE /\ call.code = 200
                  /\ update /= "none"
                  /\ DOMAIN payments' = DOMAIN payments
                  /\ \A x \in DOMAIN payments \ {o} : payments'[x] = payments[x]
                  /\ IF update \in {"ok", "late"} /\ o \in DOMAIN payments
                     THEN payments'[o] = CancelledRow
                     ELSE payments' = payments]_vars

\* a payment that a webhook had set to SUCCESS was cancelled at the gateway and
\* is now CANCELLED with null payment id, method and time; the other payment
\* is as it was
C30_Witness ==
    \E i \in CallsOfHandler("CancelPayment") :
        /\ calls[i].code = 200
        /\ calls[i].input = "o1"
        /\ CallOutcome(calls[i], "CancelOrder") = "ok"
        /\ calls[i].before[1]["o1"].status = "SUCCESS"
        /\ payments["o1"] = CancelledRow
        /\ payments["o2"] = calls[i].before[1]["o2"]

====
